---- MODULE Spec2Model ----
(***************************************************************************)
(* Model of the CropFresh API gateway's protocol layer: the gRPC status    *)
(* translator and central error handler, the token blacklist middleware,   *)
(* the request-id / trace propagation path through the route handlers and  *)
(* the gRPC client interceptor, the construction of the gRPC client        *)
(* handles at module load, the route-local status mappers, the rate-limit  *)
(* middleware and the farmer-orders router.                                *)
(***************************************************************************)
EXTENDS Integers, Sequences, FiniteSets, TLC

VARIABLES
    now,          \* wall clock read by Date.now() / new Date()
    ehPc,         \* error handler run: "in" | "done"
    ehErr,        \* the err argument of errorHandler
    ehResHdr,     \* res.getHeader('X-Trace-ID') seen by errorHandler
    ehReqHdr,     \* req.headers['x-trace-id'] seen by errorHandler
    ehRes,        \* response written by errorHandler
    ehLog,        \* entry logged by errorHandler
    ehRes2,       \* response written when the same err is handled a second time
    store,        \* revocation store: set of keys present in Redis
    redisClient,  \* module-level redisClient of the blacklist middleware
    blPc,         \* blacklist middleware: "idle" | "start" | "awaitExists" | "done"
    blReq,        \* the request's Authorization header
    blReqEntry,   \* the same header as it was when the middleware was entered
    blKey,        \* key handed to redis.exists
    blLookups,    \* number of redis.exists commands issued for the request
    blFail,       \* "none" | "ctor" | "exists": failure of the lookup
    blKeyAtLookup,\* was the key of the request's token in the store when looked up
    blNext,       \* number of next() calls made by the middleware
    blNextErr,    \* TRUE when some next() call carried an error argument
    blRes,        \* response written by the middleware
    blHandlerRan, \* TRUE once the downstream handler has run
    trPc,         \* position of the request in the middleware chain / route handler
    trReq,        \* the inbound request: route, headers, auth and validation outcome
    trSupplied,   \* the x-trace-id header as the client sent it
    trResHdr,     \* response header X-Trace-ID
    alsStore,     \* asyncLocalStorage.getStore() of the running request
    trCorr,       \* correlationId computed by the route handler
    trCalls,      \* outbound gRPC calls transmitted, in order
    trRes,        \* response written for the request
    trLog,        \* trace_id of the errorHandler's log entry
    trErr,        \* the error the request's remote call answered or threw
    trSteps,      \* steps the request has gone through, in order
    trSent,       \* number of responses written for the request
    schema,       \* services that the proto files on disk define
    loadPc,       \* module load: which client is constructed next, "ready" or "crashed"
    handles,      \* client handles constructed so far
    exports,      \* the exported client constant of each service (handle id)
    clErr,        \* service whose construction threw at module load
    clCreateCalls,\* number of GrpcClientFactory.createClient calls
    clServed,     \* requests served
    clUsed,       \* per service, the handles that requests have used
    clUseCount,   \* per service, the number of requests that used its client
    mpErr,        \* the backend error handed to the route-local mappers
    rlStore,      \* rate-limit keys in Redis: per key its counter and whether it has a TTL
    rlPc,         \* per request, its position in rateLimitMiddleware
    rlKey,        \* per request, the rate-limit key computed from req.user / req.ip
    rlCount,      \* per request, currentRequestCount as redis.incr resolved it
    rlOut,        \* per request: "none" | "next" | "rejected" | "failopen"
    rlRes,        \* per request, the response written when it was rejected
    rlStale,      \* per request, TRUE when its key expired after it was counted
    rlPassed,     \* per key, requests counted in the current window that were let through
    foPc,         \* farmer-orders router: "idle" | "auth" | "dispatch" | "await" | "responded"
    foReq,        \* the request to /v1/farmers/orders: path, auth outcome, query validity
    foHandler,    \* the route handler the router dispatched the request to
    foCall,       \* the remote call the handler issued
    foErr,        \* the error the remote call answered with
    foWire,       \* the tracking status number the backend put on the wire
    foRes,        \* response written for the request
    mpOut         \* per mapper, the HTTP status it returned (NotApplied before)

ehVars == <<ehPc, ehErr, ehResHdr, ehReqHdr, ehRes, ehLog, ehRes2>>
blVars == <<store, redisClient, blPc, blReq, blReqEntry, blKey, blLookups,
            blFail, blKeyAtLookup, blNext, blNextErr, blRes, blHandlerRan>>
trVars == <<trPc, trReq, trSupplied, trResHdr, alsStore, trCorr, trCalls, trRes, trLog,
            trErr, trSteps, trSent>>
clVars == <<schema, loadPc, handles, exports, clErr, clCreateCalls, clServed, clUsed, clUseCount>>
mpVars == <<mpErr, mpOut>>
rlVars == <<rlStore, rlPc, rlKey, rlCount, rlOut, rlRes, rlStale, rlPassed>>
foVars == <<foPc, foReq, foHandler, foCall, foErr, foWire, foRes>>
auxVars == <<mpVars, rlVars, foVars>>
coreVars == <<now, ehVars, blVars, trVars, clVars>>
vars == <<coreVars, auxVars>>

-----------------------------------------------------------------------------
(* Bounds *)

MaxClock == 2
MaxGrpcCode == 17
MaxTokLen == 2
MaxRevoked == 2
MaxRequests == 3
\* the request budget of a window: 1000 in the source, scaled down
MAX_WINDOW_REQUEST_COUNT == 2
\* requests beyond the budget that arrive
MaxRlExtra == 1

-----------------------------------------------------------------------------
(* JavaScript values *)

Undefined == "undefined"

Truthy(s) == s \notin {Undefined, ""}

NoResponse == [sent |-> FALSE]

-----------------------------------------------------------------------------
(* err.details texts and JSON.parse *)

JsonPhoneNotRegistered ==
    "{\"error\":\"PHONE_NOT_REGISTERED\",\"message\":\"no such phone\"}"

JsonAccountLocked ==
    "{\"error\":\"ACCOUNT_LOCKED\",\"message\":\"locked\",\"lockedUntil\":\"t9\",\"lockedUntilMinutes\":\"30\"}"

JsonInvalidOtp ==
    "{\"error\":\"INVALID_OTP\",\"message\":\"bad otp\",\"remainingAttempts\":\"2\"}"

JsonInvalidCredentials ==
    "{\"error\":\"INVALID_CREDENTIALS\",\"message\":\"bad login\",\"remainingAttempts\":\"1\"}"

JsonUnknownCode ==
    "{\"error\":\"QUOTA_EXCEEDED\",\"message\":\"quota\"}"

StructuredTexts ==
    {JsonPhoneNotRegistered, JsonAccountLocked, JsonInvalidOtp,
     JsonInvalidCredentials, JsonUnknownCode}

\* values of err.details: absent, empty, free text, or a JSON object
DetailsTexts == {Undefined, "", "raw"} \cup StructuredTexts

JsonObject(error, message, lockedUntil, lockedUntilMinutes, remainingAttempts) ==
    [error |-> error, message |-> message, lockedUntil |-> lockedUntil,
     lockedUntilMinutes |-> lockedUntilMinutes,
     remainingAttempts |-> remainingAttempts]

\* JSON.parse(text): ok is FALSE where JSON.parse throws a SyntaxError
JSONParse(text) ==
    CASE text = JsonPhoneNotRegistered ->
            [ok |-> TRUE, value |-> JsonObject("PHONE_NOT_REGISTERED", "no such phone",
                                               Undefined, Undefined, Undefined)]
      [] text = JsonAccountLocked ->
            [ok |-> TRUE, value |-> JsonObject("ACCOUNT_LOCKED", "locked",
                                               "t9", "30", Undefined)]
      [] text = JsonInvalidOtp ->
            [ok |-> TRUE, value |-> JsonObject("INVALID_OTP", "bad otp",
                                               Undefined, Undefined, "2")]
      [] text = JsonInvalidCredentials ->
            [ok |-> TRUE, value |-> JsonObject("INVALID_CREDENTIALS", "bad login",
                                               Undefined, Undefined, "1")]
      [] text = JsonUnknownCode ->
            [ok |-> TRUE, value |-> JsonObject("QUOTA_EXCEEDED", "quota",
                                               Undefined, Undefined, Undefined)]
      [] OTHER ->
            [ok |-> FALSE, value |-> JsonObject(Undefined, Undefined,
                                                Undefined, Undefined, Undefined)]

-----------------------------------------------------------------------------
(* gRPC status codes and their translation *)

GrpcStatus ==
    [OK |-> 0, CANCELLED |-> 1, UNKNOWN |-> 2, INVALID_ARGUMENT |-> 3,
     DEADLINE_EXCEEDED |-> 4, NOT_FOUND |-> 5, ALREADY_EXISTS |-> 6,
     PERMISSION_DENIED |-> 7, RESOURCE_EXHAUSTED |-> 8,
     FAILED_PRECONDITION |-> 9, ABORTED |-> 10, OUT_OF_RANGE |-> 11,
     UNIMPLEMENTED |-> 12, INTERNAL |-> 13, UNAVAILABLE |-> 14,
     DATA_LOSS |-> 15, UNAUTHENTICATED |-> 16]

mapGrpcStatusToHttp_swapped(grpcCode) ==
    CASE grpcCode = GrpcStatus.OK -> 200
      [] grpcCode = GrpcStatus.INVALID_ARGUMENT -> 400
      [] grpcCode = GrpcStatus.FAILED_PRECONDITION -> 400
      [] grpcCode = GrpcStatus.OUT_OF_RANGE -> 400
      [] grpcCode = GrpcStatus.UNAUTHENTICATED -> 401
      [] grpcCode = GrpcStatus.PERMISSION_DENIED -> 403
      [] grpcCode = GrpcStatus.NOT_FOUND -> 404
      [] grpcCode = GrpcStatus.ALREADY_EXISTS -> 409
      [] grpcCode = GrpcStatus.ABORTED -> 409
      [] grpcCode = GrpcStatus.RESOURCE_EXHAUSTED -> 429
      [] grpcCode = GrpcStatus.CANCELLED -> 499
      [] grpcCode = GrpcStatus.DEADLINE_EXCEEDED -> 503
      [] grpcCode = GrpcStatus.UNIMPLEMENTED -> 501
      [] grpcCode = GrpcStatus.UNAVAILABLE -> 504
      [] OTHER -> 500

mapGrpcStatusToHttp(grpcCode) ==
    CASE grpcCode = GrpcStatus.OK -> 200
      [] grpcCode = GrpcStatus.INVALID_ARGUMENT -> 400
      [] grpcCode = GrpcStatus.FAILED_PRECONDITION -> 400
      [] grpcCode = GrpcStatus.OUT_OF_RANGE -> 400
      [] grpcCode = GrpcStatus.UNAUTHENTICATED -> 401
      [] grpcCode = GrpcStatus.PERMISSION_DENIED -> 403
      [] grpcCode = GrpcStatus.NOT_FOUND -> 404
      [] grpcCode = GrpcStatus.ALREADY_EXISTS -> 409
      [] grpcCode = GrpcStatus.ABORTED -> 409
      [] grpcCode = GrpcStatus.RESOURCE_EXHAUSTED -> 429
      [] grpcCode = GrpcStatus.CANCELLED -> 499
      [] grpcCode = GrpcStatus.DEADLINE_EXCEEDED -> 504
      [] grpcCode = GrpcStatus.UNIMPLEMENTED -> 501
      [] grpcCode = GrpcStatus.UNAVAILABLE -> 503
      [] OTHER -> 500

-----------------------------------------------------------------------------
(* Central error handler *)

\* err.code values: the gRPC range, one below and one above it, and the
\* HTTP-like codes that authMiddleware and rateLimitMiddleware pass to next()
ErrCodes == ((-1)..MaxGrpcCode) \cup {401, 429}

GrpcErrors ==
    [codeKind : {"number"}, code : ErrCodes, details : DetailsTexts,
     message : {"msg"}, name : {"Error"}, isError : {TRUE}, issues : {Undefined}]

OtherErrors ==
    [codeKind : {"undefined", "string"}, code : {0}, details : {Undefined},
     message : {"msg"}, name : {"Error", "ZodError"}, isError : BOOLEAN,
     issues : {"issues"}]

ErrInputs == GrpcErrors \cup OtherErrors

errorHandler_stateful(err, resHdr, reqHdr, clock) ==
    LET traceId == IF Truthy(resHdr) THEN resHdr ELSE reqHdr
        isGrpc == err.codeKind = "number"
        statusCode == IF isGrpc /\ clock = 0 THEN mapGrpcStatusToHttp(err.code) ELSE 500
    IN [log |-> [trace_id |-> traceId, msg |-> "Request failed"],
        res |-> [sent |-> TRUE, status |-> statusCode,
                 body |-> [data |-> "null",
                           meta |-> [timestamp |-> clock, request_id |-> traceId],
                           error |-> [code |-> "INTERNAL_ERROR",
                                      message |-> "An unexpected error occurred"]]]]

errorHandler(err, resHdr, reqHdr, clock) ==
    LET traceId == IF Truthy(resHdr) THEN resHdr ELSE reqHdr
        isGrpc == err.codeKind = "number"
        isZod == ~isGrpc /\ err.name = "ZodError"
        statusCode == IF isGrpc THEN mapGrpcStatusToHttp(err.code)
                      ELSE IF isZod THEN 400 ELSE 500
        errorCode == IF isGrpc THEN "SERVICE_ERROR"
                     ELSE IF isZod THEN "VALIDATION_ERROR" ELSE "INTERNAL_ERROR"
        message == IF isGrpc
                   THEN (IF Truthy(err.details) THEN err.details ELSE err.message)
                   ELSE IF isZod THEN "Validation failed"
                   ELSE IF err.isError THEN err.message
                   ELSE "An unexpected error occurred"
        details == IF isZod THEN err.issues ELSE Undefined
    IN [log |-> [trace_id |-> traceId, msg |-> "Request failed"],
        res |-> [sent |-> TRUE, status |-> statusCode,
                 body |-> [data |-> "null",
                           meta |-> [timestamp |-> clock, request_id |-> traceId],
                           \* res.json leaves out a details that is undefined
                           error |-> IF details = Undefined
                                     THEN [code |-> errorCode, message |-> message]
                                     ELSE [code |-> errorCode, message |-> message,
                                           details |-> details]]]]

EhInit ==
    /\ ehPc = "in"
    /\ ehErr \in ErrInputs
    /\ ehResHdr \in {Undefined, "t1"}
    /\ ehReqHdr \in {Undefined, "t2"}
    /\ ehRes = NoResponse
    /\ ehLog = Undefined
    /\ ehRes2 = NoResponse

EhIdle ==
    /\ ehPc = "idle"
    /\ ehErr = Undefined
    /\ ehResHdr = Undefined
    /\ ehReqHdr = Undefined
    /\ ehRes = NoResponse
    /\ ehLog = Undefined
    /\ ehRes2 = NoResponse

EhHandle ==
    /\ ehPc = "in"
    /\ LET out == errorHandler(ehErr, ehResHdr, ehReqHdr, now)
       IN /\ ehRes' = out.res
          /\ ehLog' = out.log
    /\ ehPc' = "done"
    /\ UNCHANGED <<auxVars, now, ehErr, ehResHdr, ehReqHdr, ehRes2, blVars, trVars, clVars>>

\* a later request fails with the same err: errorHandler translates it again
EhHandleAgain ==
    /\ ehPc = "done"
    /\ \E resHdr \in {ehResHdr, "t3"} :
          ehRes2' = errorHandler(ehErr, resHdr, ehReqHdr, now).res
    /\ ehPc' = "again"
    /\ UNCHANGED <<auxVars, now, ehErr, ehResHdr, ehReqHdr, ehRes, ehLog, blVars, trVars, clVars>>

Tick ==
    /\ now < MaxClock
    /\ now' = now + 1
    /\ UNCHANGED <<auxVars, ehVars, blVars, trVars, clVars>>

-----------------------------------------------------------------------------
(* Token blacklist middleware *)

\* strings that the middleware inspects are sequences of characters
BearerPrefix == <<"B", "e", "a", "r", "e", "r", " ">>

Alphabet == {"a", "b"}

Tokens == UNION {[1..k -> Alphabet] : k \in 0..MaxTokLen}

Schemes == {BearerPrefix,
            <<"b", "e", "a", "r", "e", "r", " ">>,
            <<"B", "e", "a", "r", "e", "r">>,
            <<"B", "a", "s", "i", "c", " ">>}

NoAuthHeader == [present |-> FALSE, value |-> <<>>]

AuthHeaders ==
    {NoAuthHeader} \cup
    {[present |-> TRUE, value |-> v] : v \in {<<>>} \cup {p \o t : p \in Schemes, t \in Tokens}}

startsWith(s, p) == Len(s) >= Len(p) /\ SubSeq(s, 1, Len(p)) = p

slice(s, n) == SubSeq(s, n + 1, Len(s))

TOKEN_BLACKLIST_PREFIX == "token:blacklist:"

CharCode(c) == CASE c = "a" -> 1 [] c = "b" -> 2 [] OTHER -> 0

\* sha256 as an injective digest of the character sequence
RECURSIVE hashToken(_)
hashToken(token) ==
    IF token = <<>> THEN 1
    ELSE hashToken(SubSeq(token, 1, Len(token) - 1)) * 3 + CharCode(token[Len(token)])

BlacklistKey(tokenHash) == [prefix |-> TOKEN_BLACKLIST_PREFIX, hash |-> tokenHash]

NoKey == [prefix |-> "", hash |-> 0]

RevocableKeys == {BlacklistKey(hashToken(t)) : t \in Tokens \ {<<>>}}

ExtractToken_slice6(authHeader) == slice(authHeader, 6)

ExtractToken(authHeader) == slice(authHeader, 7)

\* the key of the request's credential, as the auth service writes it
CredentialKey(h) == BlacklistKey(hashToken(SubSeq(h.value, Len(BearerPrefix) + 1, Len(h.value))))

\* String.prototype.split on a one-character separator
RECURSIVE split(_, _)
split(s, sep) ==
    IF \E i \in 1..Len(s) : s[i] = sep
    THEN LET i == CHOOSE i \in 1..Len(s) : s[i] = sep /\ \A j \in 1..(i - 1) : s[j] # sep
         IN <<SubSeq(s, 1, i - 1)>> \o split(SubSeq(s, i + 1, Len(s)), sep)
    ELSE <<s>>

\* tokens that jwt.verify accepts: any token the auth service has signed
ValidJwts == Tokens \ {<<>>}

\* authMiddleware on the Authorization header: the token it verifies and
\* whether it calls next() without an error
authMiddlewareHeader(h) ==
    IF ~h.present \/ h.value = <<>>
    THEN [accepted |-> FALSE, token |-> <<>>, message |-> "No token provided"]
    ELSE LET parts == split(h.value, " ")
         IN IF Len(parts) < 2 \/ parts[2] = <<>>
            THEN [accepted |-> FALSE, token |-> <<>>, message |-> "Invalid token format"]
            ELSE IF parts[2] \notin ValidJwts
            THEN [accepted |-> FALSE, token |-> parts[2], message |-> "Invalid token"]
            ELSE [accepted |-> TRUE, token |-> parts[2], message |-> ""]

TokenInvalidated ==
    [sent |-> TRUE, status |-> 401,
     body |-> [success |-> FALSE,
               error |-> [code |-> "TOKEN_INVALIDATED",
                          message |-> "Session has been logged out. Please login again."]]]

BlIdle ==
    /\ redisClient = "null"
    /\ blPc = "idle"
    /\ blReq = NoAuthHeader
    /\ blReqEntry = NoAuthHeader
    /\ blKey = NoKey
    /\ blLookups = 0
    /\ blFail = "none"
    /\ blKeyAtLookup = FALSE
    /\ blNext = 0
    /\ blNextErr = FALSE
    /\ blRes = NoResponse
    /\ blHandlerRan = FALSE

\* a request reaches the middleware
BlArrive ==
    /\ blPc = "idle"
    /\ \E h \in AuthHeaders : blReq' = h /\ blReqEntry' = h
    /\ blPc' = "start"
    /\ blKey' = NoKey
    /\ blLookups' = 0
    /\ blFail' = "none"
    /\ blKeyAtLookup' = FALSE
    /\ blNext' = 0
    /\ blNextErr' = FALSE
    /\ blRes' = NoResponse
    /\ blHandlerRan' = FALSE
    /\ UNCHANGED <<auxVars, now, ehVars, trVars, clVars, store, redisClient>>

\* lines 93-97: no header, or a header that does not start with 'Bearer '
BlPassNoBearer ==
    /\ blPc = "start"
    /\ (~blReq.present \/ blReq.value = <<>> \/ ~startsWith(blReq.value, BearerPrefix))
    /\ blNext' = blNext + 1
    /\ blPc' = "done"
    /\ UNCHANGED <<auxVars, now, ehVars, trVars, clVars, store, redisClient, blReq, blReqEntry, blKey,
                   blLookups, blFail, blKeyAtLookup, blNextErr, blRes, blHandlerRan>>

\* lines 99-102: 'Bearer ' followed by nothing
BlPassEmptyToken_reject ==
    /\ blPc = "start"
    /\ blReq.present /\ startsWith(blReq.value, BearerPrefix)
    /\ ExtractToken(blReq.value) = <<>>
    /\ blRes' = TokenInvalidated
    /\ blPc' = "done"
    /\ UNCHANGED <<auxVars, now, ehVars, trVars, clVars, store, redisClient, blReq, blReqEntry, blKey,
                   blLookups, blFail, blKeyAtLookup, blNext, blNextErr, blHandlerRan>>

BlPassEmptyToken ==
    /\ blPc = "start"
    /\ blReq.present /\ startsWith(blReq.value, BearerPrefix)
    /\ ExtractToken(blReq.value) = <<>>
    /\ blNext' = blNext + 1
    /\ blPc' = "done"
    /\ UNCHANGED <<auxVars, now, ehVars, trVars, clVars, store, redisClient, blReq, blReqEntry, blKey,
                   blLookups, blFail, blKeyAtLookup, blNextErr, blRes, blHandlerRan>>

\* lines 108, 35-49 and 125-129: new Redis(...) throws, the catch calls next()
BlCtorThrows ==
    /\ blPc = "start"
    /\ blReq.present /\ startsWith(blReq.value, BearerPrefix)
    /\ ExtractToken(blReq.value) # <<>>
    /\ redisClient = "null"
    /\ blFail' = "ctor"
    /\ blKeyAtLookup' = (CredentialKey(blReq) \in store)
    /\ blNext' = blNext + 1
    /\ blPc' = "done"
    /\ UNCHANGED <<auxVars, now, ehVars, trVars, clVars, store, redisClient, blReq, blReqEntry, blKey,
                   blLookups, blNextErr, blRes, blHandlerRan>>

\* lines 99-109: hash the token, get the client, issue redis.exists and await
BlIssueExists ==
    /\ blPc = "start"
    /\ blReq.present /\ startsWith(blReq.value, BearerPrefix)
    /\ ExtractToken(blReq.value) # <<>>
    /\ redisClient' = "client"
    /\ blKey' = BlacklistKey(hashToken(ExtractToken(blReq.value)))
    /\ blLookups' = blLookups + 1
    /\ blPc' = "awaitExists"
    /\ UNCHANGED <<auxVars, now, ehVars, trVars, clVars, store, blReq, blReqEntry, blFail, blKeyAtLookup,
                   blNext, blNextErr, blRes, blHandlerRan>>

\* lines 109-124: redis.exists resolves with the number of keys found
BlExistsResolve ==
    /\ blPc = "awaitExists"
    /\ LET isBlacklisted == IF blKey \in store THEN 1 ELSE 0
       IN IF isBlacklisted # 0
          THEN blRes' = TokenInvalidated /\ blNext' = blNext
          ELSE blRes' = blRes /\ blNext' = blNext + 1
    /\ blKeyAtLookup' = (CredentialKey(blReq) \in store)
    /\ blPc' = "done"
    /\ UNCHANGED <<auxVars, now, ehVars, trVars, clVars, store, redisClient, blReq, blReqEntry, blKey,
                   blLookups, blFail, blNextErr, blHandlerRan>>

\* lines 109 and 125-129: redis.exists rejects, the catch logs and calls next()
BlExistsReject_failClosed ==
    /\ blPc = "awaitExists"
    /\ blFail' = "exists"
    /\ blKeyAtLookup' = (CredentialKey(blReq) \in store)
    /\ blNext' = blNext + 1
    /\ blNextErr' = TRUE
    /\ blPc' = "done"
    /\ UNCHANGED <<auxVars, now, ehVars, trVars, clVars, store, redisClient, blReq, blReqEntry, blKey,
                   blLookups, blRes, blHandlerRan>>

BlExistsReject ==
    /\ blPc = "awaitExists"
    /\ blFail' = "exists"
    /\ blKeyAtLookup' = (CredentialKey(blReq) \in store)
    /\ blNext' = blNext + 1
    /\ blPc' = "done"
    /\ UNCHANGED <<auxVars, now, ehVars, trVars, clVars, store, redisClient, blReq, blReqEntry, blKey,
                   blLookups, blNextErr, blRes, blHandlerRan>>

\* next() hands the request to the following handler of the chain
BlDownstream ==
    /\ blPc = "done"
    /\ blNext > 0
    /\ ~blHandlerRan
    /\ blHandlerRan' = TRUE
    /\ UNCHANGED <<auxVars, now, ehVars, trVars, clVars, store, redisClient, blPc, blReq, blReqEntry, blKey,
                   blLookups, blFail, blKeyAtLookup, blNext, blNextErr, blRes>>

\* the request is over
BlFinish ==
    /\ blPc = "done"
    /\ (blNext > 0 => blHandlerRan)
    /\ blPc' = "idle"
    /\ blReq' = NoAuthHeader
    /\ blReqEntry' = NoAuthHeader
    /\ blKey' = NoKey
    /\ blLookups' = 0
    /\ blFail' = "none"
    /\ blKeyAtLookup' = FALSE
    /\ blNext' = 0
    /\ blNextErr' = FALSE
    /\ blRes' = NoResponse
    /\ blHandlerRan' = FALSE
    /\ UNCHANGED <<auxVars, now, ehVars, trVars, clVars, store, redisClient>>

\* lines 136-141
closeBlacklistRedis ==
    /\ redisClient = "client"
    /\ blPc = "idle"
    /\ redisClient' = "null"
    /\ UNCHANGED <<auxVars, now, ehVars, trVars, clVars, store, blPc, blReq, blReqEntry, blKey, blLookups,
                   blFail, blKeyAtLookup, blNext, blNextErr, blRes, blHandlerRan>>

\* the auth service records a revoked token (logout, session revoke)
ExternalRevoke ==
    /\ Cardinality(store) < MaxRevoked
    /\ \E k \in RevocableKeys \ store : store' = store \cup {k}
    /\ UNCHANGED <<auxVars, now, ehVars, trVars, clVars, redisClient, blPc, blReq, blReqEntry, blKey, blLookups,
                   blFail, blKeyAtLookup, blNext, blNextErr, blRes, blHandlerRan>>

\* a revocation entry reaches its TTL
ExpireEntry ==
    /\ \E k \in store : store' = store \ {k}
    /\ UNCHANGED <<auxVars, now, ehVars, trVars, clVars, redisClient, blPc, blReq, blReqEntry, blKey, blLookups,
                   blFail, blKeyAtLookup, blNext, blNextErr, blRes, blHandlerRan>>

-----------------------------------------------------------------------------
(* Request id, trace context and the gRPC client interceptor *)

UUIDs == {"uuid-1", "uuid-2"}

NoStore == [set |-> FALSE, traceId |-> Undefined]

NoMetadata == [has |-> FALSE, value |-> Undefined]

\* the 'trace-id' entry of a grpc.Metadata built by createMetadata
createMetadata(traceId) == [has |-> TRUE, value |-> traceId]

\* interceptor.start: metadata handed on by the interceptor
InterceptorStart_always(metadata, als) == [has |-> TRUE, value |-> als.traceId]

InterceptorStart(metadata, als) ==
    IF als.set /\ Truthy(als.traceId)
    THEN [has |-> TRUE, value |-> als.traceId]
    ELSE metadata

\* clients built by GrpcClientFactory.createClient carry the interceptor;
\* the DropPointService client is built directly, without interceptors
ClientHasInterceptor(service) == service \in {"auth", "catalog", "order"}

\* the call as it is transmitted by the client
OutboundCall(service, metadata, als, inRequest) ==
    [service |-> service,
     intercepted |-> ClientHasInterceptor(service),
     storeEmpty |-> ~(als.set /\ Truthy(als.traceId)),
     inRequest |-> inRequest,
     callerMetadata |-> metadata,
     metadata |-> IF ClientHasInterceptor(service)
                  THEN InterceptorStart(metadata, als) ELSE metadata]

sendSuccess(resHdr, data, clock) ==
    [sent |-> TRUE, status |-> 200,
     body |-> [data |-> data,
               meta |-> [timestamp |-> clock, request_id |-> resHdr],
               error |-> "null"]]

\* a number or an object passed where sendSuccess expects its meta object
JsNumber(n) == [kind |-> "number", value |-> n]

\* sendSuccess called with a third argument: {timestamp, request_id, ...meta};
\* spreading a number adds no property
sendSuccessMeta(resHdr, data, meta, clock) ==
    LET base == [timestamp |-> clock, request_id |-> resHdr]
    IN [sent |-> TRUE, status |-> 200,
        body |-> [data |-> data,
                  meta |-> IF meta.kind = "object" THEN meta.fields @@ base ELSE base,
                  error |-> "null"]]

sendError(resHdr, statusCode, code, message, clock) ==
    [sent |-> TRUE, status |-> statusCode,
     body |-> [data |-> "null",
               meta |-> [timestamp |-> clock, request_id |-> resHdr],
               error |-> [code |-> code, message |-> message]]]

\* sendError called with its fifth argument, a details object
sendErrorDetails(resHdr, statusCode, code, message, details, clock) ==
    [sent |-> TRUE, status |-> statusCode,
     body |-> [data |-> "null",
               meta |-> [timestamp |-> clock, request_id |-> resHdr],
               error |-> [code |-> code, message |-> message, details |-> details]]]

NoError ==
    [codeKind |-> "none", code |-> 0, details |-> Undefined,
     message |-> Undefined, name |-> Undefined, isError |-> FALSE,
     issues |-> Undefined]

\* errors that authMiddleware passes to next()
AuthError(message) ==
    [codeKind |-> "number", code |-> 401, details |-> Undefined,
     message |-> message, name |-> "Object", isError |-> FALSE,
     issues |-> Undefined]

\* outcome of the Authorization header under authMiddleware's three tests
AuthCases == {"ok", "noHeader", "noToken", "badJwt"}

\* authMiddleware: the argument of its next() call
authMiddleware(req) ==
    CASE req.authCase = "noHeader" -> AuthError("No token provided")
      [] req.authCase = "noToken" -> AuthError("Invalid token format")
      [] req.authCase = "badJwt" -> AuthError("Invalid token")
      [] OTHER -> NoError

\* what the backend answers to one call
BackendErrors ==
    {e \in ErrInputs :
        \/ /\ e.codeKind = "number"
           /\ e.code \in {5, 14}
           /\ e.details \in {"raw"} \cup StructuredTexts
        \/ e.codeKind = "undefined" /\ e.name = "Error" /\ e.isError}

\* what a client stub throws synchronously when the call cannot be made
ThrownErrors ==
    {e \in ErrInputs : e.codeKind = "undefined" /\ e.name = "Error" /\ e.isError}

PublicRoutes ==
    {"authLogin", "loginRequestOtp", "loginVerifyOtp", "buyerLogin",
     "forgotPassword", "authProfile", "haulerStep1", "assignDropPoint",
     "adminAgents"}

Routes ==
    {"catalogProducts", "createOrder", "farmerOrders", "buyersListing"}
        \cup PublicRoutes

NoRequest ==
    [route |-> "none", xTraceId |-> Undefined, xRequestId |-> Undefined,
     xCorrelationId |-> Undefined, authOk |-> FALSE, authCase |-> "noHeader",
     valid |-> FALSE, hasUser |-> FALSE, role |-> "BUYER"]

Requests ==
    {r \in [route : Routes, xTraceId : {Undefined, "", "t1"},
            xRequestId : {Undefined, "r1"}, xCorrelationId : {Undefined, "c1"},
            authOk : BOOLEAN, authCase : AuthCases, valid : BOOLEAN,
            hasUser : BOOLEAN, role : {"BUYER", "FARMER"}] :
        /\ (r.route # "createOrder" => r.xRequestId = Undefined)
        /\ (r.route # "farmerOrders" => r.xCorrelationId = Undefined)
        /\ (r.authOk <=> r.authCase = "ok")
        /\ (r.route \in PublicRoutes => r.authOk)
        /\ (r.route \in {"createOrder", "assignDropPoint", "adminAgents", "buyersListing"}
               \/ r.hasUser = r.authOk)
        /\ (r.hasUser => r.authOk)
        /\ ((r.route # "buyersListing" \/ ~r.hasUser) => r.role = "BUYER")}

TrIdle ==
    /\ trPc = "idle"
    /\ trReq = NoRequest
    /\ trSupplied = Undefined
    /\ trResHdr = Undefined
    /\ alsStore = NoStore
    /\ trCorr = Undefined
    /\ trCalls = <<>>
    /\ trRes = NoResponse
    /\ trLog = Undefined
    /\ trErr = NoError
    /\ trSteps = <<>>
    /\ trSent = 0

\* an inbound request enters the middleware chain
TrArrive ==
    /\ trPc = "idle"
    /\ \E r \in Requests : trReq' = r /\ trSupplied' = r.xTraceId
    /\ trPc' = "requestId"
    /\ trResHdr' = Undefined
    /\ alsStore' = NoStore
    /\ trCorr' = Undefined
    /\ trCalls' = <<>>
    /\ trRes' = NoResponse
    /\ trLog' = Undefined
    /\ trErr' = NoError
    /\ trSteps' = <<>>
    /\ trSent' = 0
    /\ UNCHANGED <<auxVars, now, ehVars, blVars, clVars>>

requestIdMiddleware ==
    /\ trPc = "requestId"
    /\ \E uuid \in UUIDs :
          LET traceId == IF Truthy(trReq.xTraceId) THEN trReq.xTraceId ELSE uuid
          IN /\ trReq' = [trReq EXCEPT !.xTraceId = traceId]
             /\ trResHdr' = traceId
    /\ trPc' = "traceCtx"
    /\ UNCHANGED <<auxVars, now, ehVars, blVars, clVars, trSupplied, alsStore, trCorr, trCalls, trRes,
                   trLog, trErr, trSteps, trSent>>

\* binds the request-scoped store holding the request's trace id
traceIdMiddleware ==
    /\ trPc = "traceCtx"
    /\ alsStore' = [set |-> TRUE, traceId |-> trReq.xTraceId]
    /\ trPc' = "route"
    /\ UNCHANGED <<auxVars, now, ehVars, blVars, clVars, trReq, trSupplied, trResHdr, trCorr, trCalls,
                   trRes, trLog, trErr, trSteps, trSent>>

\* next(err): the central error handler answers the request
ToErrorHandler(err) ==
    LET out == errorHandler(err, trResHdr, trReq.xTraceId, now)
    IN /\ trRes' = out.res
       /\ trLog' = out.log.trace_id
       /\ trSent' = trSent + 1
       /\ trPc' = "responded"

Respond(res) ==
    /\ trRes' = res
    /\ trLog' = trLog
    /\ trSent' = trSent + 1
    /\ trPc' = "responded"

\* the handler returns before any remote call, having gone through steps
NoCall(steps) ==
    /\ trCalls' = trCalls
    /\ trErr' = trErr
    /\ trSteps' = trSteps \o steps

\* the handler invokes a client stub after steps; the call is transmitted
Issue(service, metadata, steps, pc) ==
    /\ trCalls' = Append(trCalls, OutboundCall(service, metadata, alsStore, TRUE))
    /\ trSteps' = trSteps \o steps \o <<"call">>
    /\ trPc' = pc
    /\ UNCHANGED <<trRes, trLog, trErr, trSent>>

\* the callback of the remote call runs with err (NoError on success)
Answered(err) ==
    /\ trErr' = err
    /\ trCalls' = trCalls
    /\ trSteps' = Append(trSteps, "translate")

\* a message field of the backend's response: an object, or null when the
\* backend left it unset
NestedFields == {"set", "null"}

\* the callback of a remote call throws outside any try block: nothing
\* catches it and no response is written
CallbackThrows ==
    /\ trRes' = trRes
    /\ trLog' = trLog
    /\ trSent' = trSent
    /\ trPc' = "crashed"
    /\ trErr' = NoError
    /\ trCalls' = trCalls
    /\ trSteps' = Append(trSteps, "callback_threw")

\* GET /v1/catalog/products: authMiddleware, then ListProducts
CatalogProducts_Handle ==
    /\ trPc = "route"
    /\ trReq.route = "catalogProducts"
    /\ IF ~trReq.authOk
       THEN ToErrorHandler(authMiddleware(trReq)) /\ NoCall(<<"auth_failed">>)
       ELSE Issue("catalog", createMetadata(trReq.xTraceId), <<"auth">>, "await")
    /\ UNCHANGED <<auxVars, now, ehVars, blVars, clVars, trReq, trSupplied, trResHdr, alsStore, trCorr>>

CatalogProducts_Callback ==
    /\ trPc = "await"
    /\ trReq.route = "catalogProducts"
    /\ \/ \E err \in BackendErrors : ToErrorHandler(err) /\ Answered(err)
       \/ Respond(sendSuccess(trResHdr, "products", now)) /\ Answered(NoError)
    /\ UNCHANGED <<auxVars, now, ehVars, blVars, clVars, trReq, trSupplied, trResHdr, alsStore, trCorr>>

\* buyer orders: handleGrpcError's status switch
handleGrpcErrorStatus(grpcCode) ==
    CASE grpcCode = 3 -> 400
      [] grpcCode = 5 -> 404
      [] grpcCode = 7 -> 403
      [] grpcCode = 9 -> 409
      [] grpcCode = 14 -> 503
      [] grpcCode = 16 -> 401
      [] OTHER -> 500

\* buyer orders: handleGrpcError(error, res, correlationId, next)
HandleGrpcError(error) ==
    IF error.name = "ZodError"
    THEN Respond(sendError(trResHdr, 400, "VALIDATION_ERROR", "Validation failed", now))
    ELSE IF error.codeKind # "undefined"
    THEN Respond(sendError(trResHdr,
                           IF error.codeKind = "number"
                           THEN handleGrpcErrorStatus(error.code) ELSE 500,
                           "GRPC_ERROR",
                           IF Truthy(error.message) THEN error.message ELSE "Service error",
                           now))
    ELSE ToErrorHandler(error)

ZodError ==
    [codeKind |-> "undefined", code |-> 0, details |-> Undefined, message |-> "msg",
     name |-> "ZodError", isError |-> TRUE, issues |-> "issues"]

\* "req-" followed by Date.now()
ReqStamp(clock) == "req-" \o ToString(clock)

\* POST /v1/buyers/orders (createOrder), up to the first remote call
CreateOrder_Handle ==
    /\ trPc = "route"
    /\ trReq.route = "createOrder"
    /\ LET correlationId == IF Truthy(trReq.xRequestId) THEN trReq.xRequestId
                            ELSE ReqStamp(now)
       IN IF ~trReq.authOk
          THEN /\ ToErrorHandler(authMiddleware(trReq))
               /\ NoCall(<<"auth_failed">>)
               /\ trCorr' = trCorr
          ELSE /\ trCorr' = correlationId
               /\ IF ~trReq.valid
                  THEN HandleGrpcError(ZodError) /\ NoCall(<<"auth", "validate_failed">>)
                  ELSE IF ~trReq.hasUser
                  THEN /\ Respond(sendError(trResHdr, 401, "UNAUTHORIZED", "Unauthorized", now))
                       /\ NoCall(<<"auth", "validate", "user_missing">>)
                  ELSE Issue("catalog", createMetadata(correlationId),
                             <<"auth", "validate", "user">>, "await")
    /\ UNCHANGED <<auxVars, now, ehVars, blVars, clVars, trReq, trSupplied, trResHdr, alsStore>>

\* createOrder after GetListingDetails: error, no listing, or the second call
CreateOrder_Listing ==
    /\ trPc = "await"
    /\ trReq.route = "createOrder"
    /\ \/ \E err \in BackendErrors : HandleGrpcError(err) /\ Answered(err)
       \/ /\ Respond(sendError(trResHdr, 404, "NOT_FOUND", "Listing not found", now))
          /\ Answered(NoError)
       \/ Issue("order", createMetadata(trCorr), <<>>, "await2")
    /\ UNCHANGED <<auxVars, now, ehVars, blVars, clVars, trReq, trSupplied, trResHdr, alsStore, trCorr>>

\* createOrder after CreateBuyerOrder
CreateOrder_Order ==
    /\ trPc = "await2"
    /\ trReq.route = "createOrder"
    /\ \/ \E err \in BackendErrors : HandleGrpcError(err) /\ Answered(err)
       \/ Respond(sendSuccessMeta(trResHdr, "order", JsNumber(201), now)) /\ Answered(NoError)
    /\ UNCHANGED <<auxVars, now, ehVars, blVars, clVars, trReq, trSupplied, trResHdr, alsStore, trCorr>>

\* GET /v1/farmers/orders
FarmerOrders_Handle ==
    /\ trPc = "route"
    /\ trReq.route = "farmerOrders"
    /\ LET correlationId == IF Truthy(trReq.xCorrelationId) THEN trReq.xCorrelationId ELSE ""
       IN IF ~trReq.authOk
          THEN /\ ToErrorHandler(authMiddleware(trReq))
               /\ NoCall(<<"auth_failed">>)
               /\ trCorr' = trCorr
          ELSE /\ trCorr' = correlationId
               /\ IF ~trReq.valid
                  THEN /\ Respond(sendError(trResHdr, 400, "VALIDATION_ERROR",
                                            "Invalid query parameters", now))
                       /\ NoCall(<<"auth", "validate_failed">>)
                  ELSE Issue("order", createMetadata(correlationId),
                             <<"auth", "validate">>, "await")
    /\ UNCHANGED <<auxVars, now, ehVars, blVars, clVars, trReq, trSupplied, trResHdr, alsStore>>

FarmerOrders_Callback ==
    /\ trPc = "await"
    /\ trReq.route = "farmerOrders"
    /\ \/ \E err \in BackendErrors : ToErrorHandler(err) /\ Answered(err)
       \/ Respond(sendSuccess(trResHdr, "orders", now)) /\ Answered(NoError)
    /\ UNCHANGED <<auxVars, now, ehVars, blVars, clVars, trReq, trSupplied, trResHdr, alsStore, trCorr>>

\* GET /v1/buyers/listings/:id
BuyersListing_Handle ==
    /\ trPc = "route"
    /\ trReq.route = "buyersListing"
    /\ IF ~trReq.authOk
       THEN ToErrorHandler(authMiddleware(trReq)) /\ NoCall(<<"auth_failed">>)
       ELSE IF ~trReq.hasUser
       THEN /\ Respond(sendError(trResHdr, 401, "UNAUTHORIZED", "User not authenticated", now))
            /\ NoCall(<<"auth", "user_missing">>)
       ELSE IF trReq.role # "BUYER"
       THEN /\ Respond(sendError(trResHdr, 403, "FORBIDDEN",
                                 "Only buyers can view listing details", now))
            /\ NoCall(<<"auth", "user", "role_failed">>)
       ELSE IF ~trReq.valid
       THEN /\ Respond(sendErrorDetails(trResHdr, 400, "VALIDATION_ERROR",
                                        "Invalid listing ID", [errors |-> "issues"], now))
            /\ NoCall(<<"auth", "user", "validate_failed">>)
       ELSE Issue("catalog",
                  createMetadata(IF Truthy(trReq.xTraceId) THEN trReq.xTraceId ELSE "unknown"),
                  <<"auth", "user", "validate">>, "await")
    /\ UNCHANGED <<auxVars, now, ehVars, blVars, clVars, trReq, trSupplied, trResHdr, alsStore, trCorr>>

\* the GetListingDetails callback: its own error mapping
BuyersListing_Callback ==
    /\ trPc = "await"
    /\ trReq.route = "buyersListing"
    /\ \/ \E err \in BackendErrors :
             /\ Answered(err)
             /\ IF err.codeKind = "number" /\ err.code = 5
                THEN Respond(sendError(trResHdr, 404, "NOT_FOUND",
                                       "Listing not found or not available", now))
                ELSE IF err.codeKind = "number" /\ err.code = 14
                THEN Respond(sendError(trResHdr, 503, "SERVICE_UNAVAILABLE",
                                       "Catalog service unavailable", now))
                ELSE Respond(sendError(trResHdr, 500, "INTERNAL_ERROR",
                                       "Failed to fetch listing details", now))
       \/ Respond(sendSuccess(trResHdr, "listing", now)) /\ Answered(NoError)
    /\ UNCHANGED <<auxVars, now, ehVars, blVars, clVars, trReq, trSupplied, trResHdr, alsStore, trCorr>>

\* POST /v1/auth/login
AuthLogin_Handle ==
    /\ trPc = "route"
    /\ trReq.route = "authLogin"
    /\ IF ~trReq.valid
       THEN ToErrorHandler(ZodError) /\ NoCall(<<"validate_failed">>)
       ELSE Issue("auth", createMetadata(trReq.xTraceId), <<"validate">>, "await")
    /\ UNCHANGED <<auxVars, now, ehVars, blVars, clVars, trReq, trSupplied, trResHdr, alsStore, trCorr>>

AuthLogin_Callback ==
    /\ trPc = "await"
    /\ trReq.route = "authLogin"
    /\ \/ \E err \in BackendErrors : ToErrorHandler(err) /\ Answered(err)
       \/ Respond(sendSuccess(trResHdr, [token |-> "fake-token"], now)) /\ Answered(NoError)
    /\ UNCHANGED <<auxVars, now, ehVars, blVars, clVars, trReq, trSupplied, trResHdr, alsStore, trCorr>>

\* the callbacks of the login routes: structured codes answered by the route
\* itself; hit is FALSE where the callback falls through to next(err)
NoOverride == [hit |-> FALSE, status |-> 0, hasDetails |-> FALSE, details |-> Undefined]

RequestLoginOtp_onError(err) ==
    LET parsed == JSONParse(err.details)
        errorDetails == parsed.value
    IN IF parsed.ok /\ errorDetails.error = "PHONE_NOT_REGISTERED"
       THEN [hit |-> TRUE, status |-> 404, hasDetails |-> FALSE, details |-> Undefined]
       ELSE IF parsed.ok /\ errorDetails.error = "ACCOUNT_LOCKED"
       THEN [hit |-> TRUE, status |-> 403, hasDetails |-> TRUE,
             details |-> [locked_until |-> errorDetails.lockedUntil]]
       ELSE NoOverride

VerifyLoginOtp_onError(err) ==
    LET parsed == JSONParse(err.details)
        errorDetails == parsed.value
    IN IF parsed.ok /\ errorDetails.error = "INVALID_OTP"
       THEN [hit |-> TRUE, status |-> 401, hasDetails |-> TRUE,
             details |-> [remaining_attempts |-> errorDetails.remainingAttempts]]
       ELSE IF parsed.ok /\ errorDetails.error = "ACCOUNT_LOCKED"
       THEN [hit |-> TRUE, status |-> 403, hasDetails |-> TRUE,
             details |-> [locked_until |-> errorDetails.lockedUntil]]
       ELSE IF parsed.ok /\ errorDetails.error = "PHONE_NOT_REGISTERED"
       THEN [hit |-> TRUE, status |-> 404, hasDetails |-> FALSE, details |-> Undefined]
       ELSE NoOverride

LoginBuyer_onError(err) ==
    LET parsed == JSONParse(err.details)
        errorDetails == parsed.value
    IN IF parsed.ok /\ errorDetails.error = "INVALID_CREDENTIALS"
       THEN [hit |-> TRUE, status |-> 401, hasDetails |-> TRUE,
             details |-> [remaining_attempts |-> errorDetails.remainingAttempts]]
       ELSE IF parsed.ok /\ errorDetails.error = "ACCOUNT_LOCKED"
       THEN [hit |-> TRUE, status |-> 429, hasDetails |-> TRUE,
             details |-> [locked_until_minutes |-> errorDetails.lockedUntilMinutes]]
       ELSE NoOverride

\* sendError(res, status, errorDetails.error, errorDetails.message, details?)
\* for a structured code, next(err) otherwise
StructuredOrNext(err, override) ==
    LET errorDetails == JSONParse(err.details).value
    IN IF ~override.hit
       THEN ToErrorHandler(err)
       ELSE IF ~override.hasDetails
       THEN Respond(sendError(trResHdr, override.status, errorDetails.error,
                              errorDetails.message, now))
       ELSE Respond(sendErrorDetails(trResHdr, override.status, errorDetails.error,
                                     errorDetails.message, override.details, now))

\* POST /v1/auth/login/request-otp
LoginRequestOtp_Handle ==
    /\ trPc = "route"
    /\ trReq.route = "loginRequestOtp"
    /\ IF ~trReq.valid
       THEN ToErrorHandler(ZodError) /\ NoCall(<<"validate_failed">>)
       ELSE Issue("auth", createMetadata(trReq.xTraceId), <<"validate">>, "await")
    /\ UNCHANGED <<auxVars, now, ehVars, blVars, clVars, trReq, trSupplied, trResHdr, alsStore, trCorr>>

LoginRequestOtp_Callback ==
    /\ trPc = "await"
    /\ trReq.route = "loginRequestOtp"
    /\ \/ \E err \in BackendErrors :
             StructuredOrNext(err, RequestLoginOtp_onError(err)) /\ Answered(err)
       \/ /\ Respond(sendSuccess(trResHdr, [message |-> "sent", expires_in |-> "300"], now))
          /\ Answered(NoError)
    /\ UNCHANGED <<auxVars, now, ehVars, blVars, clVars, trReq, trSupplied, trResHdr, alsStore, trCorr>>

\* POST /v1/auth/login/verify-otp
LoginVerifyOtp_Handle ==
    /\ trPc = "route"
    /\ trReq.route = "loginVerifyOtp"
    /\ IF ~trReq.valid
       THEN ToErrorHandler(ZodError) /\ NoCall(<<"validate_failed">>)
       ELSE Issue("auth", createMetadata(trReq.xTraceId), <<"validate">>, "await")
    /\ UNCHANGED <<auxVars, now, ehVars, blVars, clVars, trReq, trSupplied, trResHdr, alsStore, trCorr>>

LoginVerifyOtp_Callback ==
    /\ trPc = "await"
    /\ trReq.route = "loginVerifyOtp"
    /\ \/ \E err \in BackendErrors :
             StructuredOrNext(err, VerifyLoginOtp_onError(err)) /\ Answered(err)
       \/ \E user \in NestedFields :
             IF user = "null"
             THEN CallbackThrows
             ELSE /\ Respond(sendSuccess(trResHdr, [token |-> "jwt", user |-> "user"], now))
                  /\ Answered(NoError)
    /\ UNCHANGED <<auxVars, now, ehVars, blVars, clVars, trReq, trSupplied, trResHdr, alsStore, trCorr>>

\* POST /v1/auth/buyer/login
BuyerLogin_Handle ==
    /\ trPc = "route"
    /\ trReq.route = "buyerLogin"
    /\ IF ~trReq.valid
       THEN /\ Respond(sendError(trResHdr, 400, "VALIDATION_ERROR",
                                 "Email and password are required", now))
            /\ NoCall(<<"validate_failed">>)
       ELSE Issue("auth", createMetadata(trReq.xTraceId), <<"validate">>, "await")
    /\ UNCHANGED <<auxVars, now, ehVars, blVars, clVars, trReq, trSupplied, trResHdr, alsStore, trCorr>>

BuyerLogin_Callback ==
    /\ trPc = "await"
    /\ trReq.route = "buyerLogin"
    /\ \/ \E err \in BackendErrors :
             StructuredOrNext(err, LoginBuyer_onError(err)) /\ Answered(err)
       \/ /\ Respond(sendSuccess(trResHdr,
                                 [message |-> "ok", token |-> "jwt", user |-> "buyer"], now))
          /\ Answered(NoError)
    /\ UNCHANGED <<auxVars, now, ehVars, blVars, clVars, trReq, trSupplied, trResHdr, alsStore, trCorr>>

\* the text forgot-password answers when the backend gave no message
ResetLinkNotice == "If this email exists, we've sent a reset link."

\* POST /v1/auth/buyer/forgot-password
ForgotPassword_Handle ==
    /\ trPc = "route"
    /\ trReq.route = "forgotPassword"
    /\ \/ /\ ~trReq.valid
          /\ Respond(sendError(trResHdr, 400, "VALIDATION_ERROR", "Email is required", now))
          /\ NoCall(<<"validate_failed">>)
       \/ /\ trReq.valid
          /\ Issue("auth", createMetadata(trReq.xTraceId), <<"validate">>, "await")
       \/ /\ trReq.valid
          /\ \E error \in ThrownErrors :
                /\ Respond(sendSuccess(trResHdr, [message |-> ResetLinkNotice], now))
                /\ trErr' = error
                /\ trCalls' = trCalls
                /\ trSteps' = trSteps \o <<"validate", "threw">>
    /\ UNCHANGED <<auxVars, now, ehVars, blVars, clVars, trReq, trSupplied, trResHdr, alsStore, trCorr>>

ForgotPassword_Callback_passErr ==
    /\ trPc = "await"
    /\ trReq.route = "forgotPassword"
    /\ \/ \E err \in BackendErrors : ToErrorHandler(err) /\ Answered(err)
       \/ /\ Respond(sendSuccess(trResHdr, [message |-> "response.message"], now))
          /\ Answered(NoError)
    /\ UNCHANGED <<auxVars, now, ehVars, blVars, clVars, trReq, trSupplied, trResHdr, alsStore, trCorr>>

\* the ForgotPassword callback: err is logged, the answer is a success
ForgotPassword_Callback ==
    /\ trPc = "await"
    /\ trReq.route = "forgotPassword"
    /\ \/ \E err \in BackendErrors :
             /\ Respond(sendSuccess(trResHdr, [message |-> ResetLinkNotice], now))
             /\ Answered(err)
       \/ /\ Respond(sendSuccess(trResHdr, [message |-> "response.message"], now))
          /\ Answered(NoError)
    /\ UNCHANGED <<auxVars, now, ehVars, blVars, clVars, trReq, trSupplied, trResHdr, alsStore, trCorr>>

\* a backend error with status ALREADY_EXISTS
AlreadyExists ==
    [codeKind |-> "number", code |-> 6, details |-> "raw", message |-> "msg",
     name |-> "Error", isError |-> TRUE, issues |-> Undefined]

\* POST /v1/auth/profile
AuthProfile_Handle ==
    /\ trPc = "route"
    /\ trReq.route = "authProfile"
    /\ IF ~trReq.valid
       THEN /\ Respond(sendError(trResHdr, 400, "VALIDATION_ERROR",
                                 "User ID, full name, district, and state are required", now))
            /\ NoCall(<<"validate_failed">>)
       ELSE Issue("auth", createMetadata(trReq.xTraceId), <<"validate">>, "await")
    /\ UNCHANGED <<auxVars, now, ehVars, blVars, clVars, trReq, trSupplied, trResHdr, alsStore, trCorr>>

\* the CreateFarmerProfile callback
AuthProfile_Callback ==
    /\ trPc = "await"
    /\ trReq.route = "authProfile"
    /\ \/ \E err \in BackendErrors \cup {AlreadyExists} :
             /\ IF err.codeKind = "number" /\ err.code = 6
                THEN Respond(sendError(trResHdr, 409, "PROFILE_EXISTS",
                                       "Profile already exists for this user", now))
                ELSE ToErrorHandler(err)
             /\ Answered(err)
       \/ \E profile \in NestedFields :
             IF profile = "null"
             THEN CallbackThrows
             ELSE /\ Respond(sendSuccessMeta(trResHdr,
                                             [message |-> "response.message",
                                              profile |-> "profile"],
                                             JsNumber(201), now))
                  /\ Answered(NoError)
    /\ UNCHANGED <<auxVars, now, ehVars, blVars, clVars, trReq, trSupplied, trResHdr, alsStore, trCorr>>

\* hauler registration: parseGrpcError
parseGrpcError(error) ==
    [status |-> IF error.codeKind # "number" THEN 500
                ELSE CASE error.code = 3 -> 400
                       [] error.code = 5 -> 404
                       [] error.code = 6 -> 409
                       [] error.code = 7 -> 403
                       [] error.code = 9 -> 400
                       [] error.code = 16 -> 401
                       [] OTHER -> 500,
     body |-> IF JSONParse(error.details).ok
              THEN JSONParse(error.details).value
              ELSE [error |-> "ERROR",
                    message |-> IF Truthy(error.details) THEN error.details
                                ELSE "Unknown error"]]

\* POST /v1/hauler/register/step1
HaulerStep1_Handle ==
    /\ trPc = "route"
    /\ trReq.route = "haulerStep1"
    /\ \/ /\ ~trReq.valid
          /\ Respond([sent |-> TRUE, status |-> 400,
                      body |-> [error |-> "VALIDATION_ERROR",
                                message |-> "full_name and mobile_number are required"]])
          /\ NoCall(<<"validate_failed">>)
       \/ /\ trReq.valid
          /\ Issue("auth", NoMetadata, <<"validate">>, "await")
       \/ /\ trReq.valid
          /\ \E error \in ThrownErrors :
                /\ Respond([sent |-> TRUE, status |-> 500,
                            body |-> [error |-> "INTERNAL_ERROR",
                                      message |-> error.message]])
                /\ trErr' = error
                /\ trCalls' = trCalls
                /\ trSteps' = trSteps \o <<"validate", "threw">>
    /\ UNCHANGED <<auxVars, now, ehVars, blVars, clVars, trReq, trSupplied, trResHdr, alsStore, trCorr>>

HaulerStep1_Callback ==
    /\ trPc = "await"
    /\ trReq.route = "haulerStep1"
    /\ \/ \E err \in BackendErrors :
             LET errorDetails == parseGrpcError(err)
             IN /\ Respond([sent |-> TRUE, status |-> errorDetails.status,
                            body |-> errorDetails.body])
                /\ Answered(err)
       \/ /\ Respond([sent |-> TRUE, status |-> 200,
                      body |-> [success |-> TRUE, data |-> "response"]])
          /\ Answered(NoError)
    /\ UNCHANGED <<auxVars, now, ehVars, blVars, clVars, trReq, trSupplied, trResHdr, alsStore, trCorr>>

\* POST /v1/admin/agents, up to the CreateFieldAgent call
AdminAgents_Handle ==
    /\ trPc = "route"
    /\ trReq.route = "adminAgents"
    /\ IF ~trReq.valid
       THEN /\ Respond([sent |-> TRUE, status |-> 400,
                        body |-> [success |-> FALSE, error |-> "VALIDATION_ERROR",
                                  message |-> "issue"]])
            /\ NoCall(<<"validate_failed">>)
       ELSE IF ~trReq.hasUser
       THEN /\ Respond([sent |-> TRUE, status |-> 401,
                        body |-> [success |-> FALSE, error |-> "UNAUTHORIZED",
                                  message |-> "Authentication required"]])
            /\ NoCall(<<"validate", "user_missing">>)
       ELSE Issue("auth", NoMetadata, <<"validate", "user">>, "await")
    /\ UNCHANGED <<auxVars, now, ehVars, blVars, clVars, trReq, trSupplied, trResHdr, alsStore, trCorr>>

\* POST /v1/admin/agents after the call: reject(err) lands in the catch block
AdminAgents_Callback ==
    /\ trPc = "await"
    /\ trReq.route = "adminAgents"
    /\ \/ \E err \in BackendErrors :
             /\ Respond([sent |-> TRUE, status |-> 500,
                         body |-> [success |-> FALSE, error |-> "INTERNAL_ERROR",
                                   message |-> IF Truthy(err.message) THEN err.message
                                               ELSE "Failed to create agent"]])
             /\ Answered(err)
       \/ /\ Respond([sent |-> TRUE, status |-> 400,
                      body |-> [success |-> FALSE, error |-> "CREATE_FAILED",
                                message |-> "response.message"]])
          /\ Answered(NoError)
       \/ /\ Respond([sent |-> TRUE, status |-> 201,
                      body |-> [success |-> TRUE, message |-> "response.message",
                                data |-> "agent"]])
          /\ Answered(NoError)
    /\ UNCHANGED <<auxVars, now, ehVars, blVars, clVars, trReq, trSupplied, trResHdr, alsStore, trCorr>>

\* drop point routes: successResponse / errorResponse
successResponse(data, status, clock) ==
    [sent |-> TRUE, status |-> status,
     body |-> [data |-> data, error |-> "null", meta |-> [timestamp |-> clock]]]

errorResponse(code, message, status, clock) ==
    [sent |-> TRUE, status |-> status,
     body |-> [data |-> "null", error |-> [code |-> code, message |-> message],
               meta |-> [timestamp |-> clock]]]

\* drop point routes: mapGrpcError
mapGrpcError(error, clock) ==
    IF error.codeKind = "number" /\ error.code = GrpcStatus.NOT_FOUND
    THEN errorResponse("NOT_FOUND", error.message, 404, clock)
    ELSE IF error.codeKind = "number" /\ error.code = GrpcStatus.PERMISSION_DENIED
    THEN errorResponse("FORBIDDEN", error.message, 403, clock)
    ELSE IF error.codeKind = "number" /\ error.code = GrpcStatus.INVALID_ARGUMENT
    THEN errorResponse("BAD_REQUEST", error.message, 400, clock)
    ELSE IF error.codeKind = "number" /\ error.code = GrpcStatus.FAILED_PRECONDITION
    THEN errorResponse("CONFLICT", error.message, 409, clock)
    ELSE errorResponse("INTERNAL_ERROR", "An unexpected error occurred", 500, clock)

\* POST /v1/farmers/listings/:id/assign-droppoint
AssignDropPoint_Handle ==
    /\ trPc = "route"
    /\ trReq.route = "assignDropPoint"
    /\ IF ~trReq.valid
       THEN /\ Respond([sent |-> TRUE, status |-> 400,
                        body |-> [data |-> "null",
                                  error |-> [code |-> "VALIDATION_ERROR",
                                             message |-> "Invalid path parameters",
                                             details |-> "fieldErrors"]]])
            /\ NoCall(<<"validate_failed">>)
       ELSE IF ~trReq.hasUser
       THEN /\ Respond(errorResponse("UNAUTHORIZED", "Authentication required", 401, now))
            /\ NoCall(<<"validate", "user_missing">>)
       ELSE Issue("logistics", NoMetadata, <<"validate", "user">>, "await")
    /\ UNCHANGED <<auxVars, now, ehVars, blVars, clVars, trReq, trSupplied, trResHdr, alsStore, trCorr>>

AssignDropPoint_Callback ==
    /\ trPc = "await"
    /\ trReq.route = "assignDropPoint"
    /\ \/ \E err \in BackendErrors : Respond(mapGrpcError(err, now)) /\ Answered(err)
       \/ Respond(successResponse("drop_point", 201, now)) /\ Answered(NoError)
    /\ UNCHANGED <<auxVars, now, ehVars, blVars, clVars, trReq, trSupplied, trResHdr, alsStore, trCorr>>

\* the response is out; the request's context is gone
TrFinish ==
    /\ trPc = "responded"
    /\ trPc' = "idle"
    /\ trReq' = NoRequest
    /\ trSupplied' = Undefined
    /\ trResHdr' = Undefined
    /\ alsStore' = NoStore
    /\ trCorr' = Undefined
    /\ trCalls' = <<>>
    /\ trRes' = NoResponse
    /\ trLog' = Undefined
    /\ trErr' = NoError
    /\ trSteps' = <<>>
    /\ trSent' = 0
    /\ UNCHANGED <<auxVars, now, ehVars, blVars, clVars>>

\* a client call made outside any request: getStore() returns nothing, or a
\* store that holds no trace id
CallOutsideContext ==
    /\ trPc = "idle"
    /\ trCalls = <<>>
    /\ \E service \in {"auth", "catalog", "order"},
          md \in {NoMetadata, createMetadata("bg")},
          als \in {NoStore, [set |-> TRUE, traceId |-> Undefined],
                   [set |-> TRUE, traceId |-> ""]} :
          trCalls' = <<OutboundCall(service, md, als, FALSE)>>
    /\ UNCHANGED <<auxVars, now, ehVars, blVars, clVars, trPc, trReq, trSupplied, trResHdr, alsStore,
                   trCorr, trRes, trLog, trErr, trSteps, trSent>>

-----------------------------------------------------------------------------
(* gRPC client handles: construction at module load, use by requests *)

Services == {"auth", "catalog", "order", "match", "logistics"}

\* the service names handed to the loaded proto descriptor
ServicePath(service) ==
    CASE service = "auth" -> <<"cropfresh", "auth", "AuthService">>
      [] service = "catalog" -> <<"cropfresh", "catalog", "CatalogService">>
      [] service = "order" -> <<"cropfresh", "order", "OrderService">>
      [] service = "match" -> <<"cropfresh", "order", "MatchService">>
      [] service = "logistics" -> <<"cropfresh", "logistics", "DropPointService">>

\* grpc.loadPackageDefinition: the descriptor tree, as the set of its paths
ProtoDescriptor(service, defined) ==
    IF service \in defined THEN {ServicePath(service)} ELSE {}

\* part_013 lines 23-28: walk the descriptor along the dotted name; the
\* result is the set of descriptor paths below the node reached (empty when
\* a segment is missing)
RECURSIVE Traverse(_, _, _)
Traverse(node, servicePath, i) ==
    IF i > Len(servicePath) \/ node = {} THEN node
    ELSE Traverse({p \in node : Len(p) >= i /\ p[i] = servicePath[i]}, servicePath, i + 1)

FindService_alwaysFound(protoDescriptor, servicePath) == TRUE

FindService(protoDescriptor, servicePath) ==
    Traverse(protoDescriptor, servicePath, 1) # {}

NoExports == [s \in Services |-> 0]

ClIdle ==
    /\ schema = {}
    /\ loadPc = "unloaded"
    /\ handles = <<>>
    /\ exports = NoExports
    /\ clErr = Undefined
    /\ clCreateCalls = 0
    /\ clServed = 0
    /\ clUsed = [s \in Services |-> {}]
    /\ clUseCount = [s \in Services |-> 0]

\* process start: the proto files on disk define a service or do not
ClInit ==
    /\ schema \in SUBSET Services
    /\ loadPc = "auth"
    /\ handles = <<>>
    /\ exports = NoExports
    /\ clErr = Undefined
    /\ clCreateCalls = 0
    /\ clServed = 0
    /\ clUsed = [s \in Services |-> {}]
    /\ clUseCount = [s \in Services |-> 0]

\* GrpcClientFactory.createClient(serviceName, protoPath, address), called
\* for the module-level constant of `service`
createClient(service, nextPc) ==
    /\ clCreateCalls' = clCreateCalls + 1
    /\ IF ~FindService(ProtoDescriptor(service, schema), ServicePath(service))
       THEN /\ clErr' = service
            /\ loadPc' = "crashed"
            /\ UNCHANGED <<auxVars, handles, exports>>
       ELSE /\ handles' = Append(handles,
                 [id |-> Len(handles) + 1, service |-> service,
                  interceptors |-> TRUE, during |-> "load"])
            /\ exports' = [exports EXCEPT ![service] = Len(handles) + 1]
            /\ loadPc' = nextPc
            /\ clErr' = clErr
    /\ UNCHANGED <<auxVars, now, ehVars, blVars, trVars, schema, clServed, clUsed, clUseCount>>

\* clients.ts lines 10-14
LoadAuthClient == loadPc = "auth" /\ createClient("auth", "catalog")

\* clients.ts lines 16-20
LoadCatalogClient == loadPc = "catalog" /\ createClient("catalog", "order")

\* clients.ts lines 22-26
LoadOrderClient == loadPc = "order" /\ createClient("order", "match")

\* the matchClient export of clients.ts that order-match-client imports
LoadMatchClient == loadPc = "match" /\ createClient("match", "logistics")

\* logistics-client: new proto.cropfresh.logistics.DropPointService(...)
LoadLogisticsClient ==
    /\ loadPc = "logistics"
    /\ IF ~FindService(ProtoDescriptor("logistics", schema), ServicePath("logistics"))
       THEN /\ clErr' = "logistics"
            /\ loadPc' = "crashed"
            /\ UNCHANGED <<auxVars, handles, exports>>
       ELSE /\ handles' = Append(handles,
                 [id |-> Len(handles) + 1, service |-> "logistics",
                  interceptors |-> FALSE, during |-> "load"])
            /\ exports' = [exports EXCEPT !["logistics"] = Len(handles) + 1]
            /\ loadPc' = "ready"
            /\ clErr' = clErr
    /\ UNCHANGED <<auxVars, now, ehVars, blVars, trVars, schema, clCreateCalls, clServed, clUsed,
                   clUseCount>>

\* a request handler that builds its own client instead of using the export
ClRequest_ownClient ==
    /\ loadPc = "ready"
    /\ clServed < MaxRequests
    /\ \E service \in Services :
          /\ handles' = Append(handles,
                 [id |-> Len(handles) + 1, service |-> service,
                  interceptors |-> TRUE, during |-> "request"])
          /\ clUsed' = [clUsed EXCEPT ![service] = @ \cup {Len(handles) + 1}]
          /\ clUseCount' = [clUseCount EXCEPT ![service] = @ + 1]
    /\ clServed' = clServed + 1
    /\ UNCHANGED <<auxVars, now, ehVars, blVars, trVars, schema, loadPc, exports, clErr,
                   clCreateCalls>>

\* a request handler calls a method of the imported client constant
ClRequest ==
    /\ loadPc = "ready"
    /\ clServed < MaxRequests
    /\ \E service \in Services :
          /\ clUsed' = [clUsed EXCEPT ![service] = @ \cup {exports[service]}]
          /\ clUseCount' = [clUseCount EXCEPT ![service] = @ + 1]
    /\ clServed' = clServed + 1
    /\ UNCHANGED <<auxVars, now, ehVars, blVars, trVars, schema, loadPc, handles, exports, clErr,
                   clCreateCalls>>

-----------------------------------------------------------------------------
(* Route-local backend-error mappers *)

Mappers ==
    {"handleGrpcError", "parseGrpcError", "parseGrpcErrorTeam", "mapGrpcError",
     "mapGrpcErrorPhotos", "listingInline"}

NotApplied == -1

\* team routes: parseGrpcError's status switch
parseGrpcErrorTeamStatus(grpcCode) ==
    CASE grpcCode = 3 -> 400
      [] grpcCode = 5 -> 404
      [] grpcCode = 6 -> 409
      [] grpcCode = 7 -> 403
      [] grpcCode = 16 -> 401
      [] OTHER -> 500

\* photo routes: mapGrpcError's status switch
mapGrpcErrorPhotosStatus(grpcCode) ==
    CASE grpcCode = 3 -> 400
      [] grpcCode = 5 -> 404
      [] grpcCode = 7 -> 403
      [] grpcCode = 16 -> 401
      [] OTHER -> 500

\* buyer listings: the status chosen inline by the GetListingDetails callback
listingInlineStatus(grpcCode) ==
    CASE grpcCode = 5 -> 404
      [] grpcCode = 14 -> 503
      [] OTHER -> 500

\* the HTTP status a mapper returns for a backend error
MapperStatus(mapper, error) ==
    CASE mapper = "handleGrpcError" -> handleGrpcErrorStatus(error.code)
      [] mapper = "parseGrpcError" -> parseGrpcError(error).status
      [] mapper = "parseGrpcErrorTeam" -> parseGrpcErrorTeamStatus(error.code)
      [] mapper = "mapGrpcError" -> mapGrpcError(error, 0).status
      [] mapper = "mapGrpcErrorPhotos" -> mapGrpcErrorPhotosStatus(error.code)
      [] OTHER -> listingInlineStatus(error.code)

MpIdle ==
    /\ mpErr = NoError
    /\ mpOut = [m \in Mappers |-> NotApplied]

\* a backend error with any numeric code
MpInit ==
    /\ mpErr \in {e \in GrpcErrors : e.details = "raw"}
    /\ mpOut = [m \in Mappers |-> NotApplied]

ApplyMapper(mapper) ==
    /\ mpOut[mapper] = NotApplied
    /\ mpOut' = [mpOut EXCEPT ![mapper] = MapperStatus(mapper, mpErr)]
    /\ UNCHANGED <<coreVars, mpErr, rlVars, foVars>>

-----------------------------------------------------------------------------
(* Rate-limit middleware *)

RlProcs == 1..(MAX_WINDOW_REQUEST_COUNT + MaxRlExtra)

\* what the key is derived from: req.user (its id) or req.ip
RlRequests == [user : {Undefined, "u1"}, ip : {"ip1"}]

\* `rate-limit:${user.id}` when req.user is set, `rate-limit:${req.ip}` otherwise
RateLimitKey(req) ==
    IF req.user # Undefined THEN <<"rate-limit:", req.user>>
    ELSE <<"rate-limit:", req.ip>>

RlKeys == {RateLimitKey(r) : r \in RlRequests}

NoKeyYet == <<>>

AbsentKey == [count |-> 0, ttl |-> FALSE]

\* the object handed to next() when the budget is exceeded
RateLimitError ==
    [codeKind |-> "number", code |-> 429, details |-> Undefined,
     message |-> "Too many requests", name |-> "Object", isError |-> FALSE,
     issues |-> Undefined]

RlIdle ==
    /\ rlStore = [k \in RlKeys |-> AbsentKey]
    /\ rlPc = [p \in RlProcs |-> "idle"]
    /\ rlKey = [p \in RlProcs |-> NoKeyYet]
    /\ rlCount = [p \in RlProcs |-> 0]
    /\ rlOut = [p \in RlProcs |-> "none"]
    /\ rlRes = [p \in RlProcs |-> NoResponse]
    /\ rlStale = [p \in RlProcs |-> FALSE]
    /\ rlPassed = [k \in RlKeys |-> 0]

\* rateLimitMiddleware is entered: the key is computed and INCR is sent
RlArrive(p) ==
    /\ rlPc[p] = "idle"
    /\ \A q \in RlProcs : q < p => rlPc[q] # "idle"
    /\ \E req \in RlRequests : rlKey' = [rlKey EXCEPT ![p] = RateLimitKey(req)]
    /\ rlPc' = [rlPc EXCEPT ![p] = "incr"]
    /\ UNCHANGED <<coreVars, mpVars, foVars, rlStore, rlCount, rlOut, rlRes, rlStale, rlPassed>>

\* next() is called without an error
RlNext(p, out) ==
    /\ rlOut' = [rlOut EXCEPT ![p] = out]
    /\ rlRes' = rlRes
    /\ rlPc' = [rlPc EXCEPT ![p] = "done"]

\* next({ code: 429, message: 'Too many requests' }): errorHandler answers
RlReject(p) ==
    /\ rlOut' = [rlOut EXCEPT ![p] = "rejected"]
    /\ rlRes' = [rlRes EXCEPT ![p] = errorHandler(RateLimitError, "t1", "t1", now).res]
    /\ rlPc' = [rlPc EXCEPT ![p] = "done"]

\* the comparison of currentRequestCount with the budget, and next()
RlDecide(p, count) ==
    IF count > MAX_WINDOW_REQUEST_COUNT
    THEN RlReject(p) /\ rlPassed' = rlPassed
    ELSE /\ RlNext(p, "next")
         /\ rlPassed' = IF rlStale[p] THEN rlPassed
                        ELSE [rlPassed EXCEPT ![rlKey[p]] = @ + 1]

RlIncr_lostUpdate(p) ==
    /\ rlPc[p] = "incr"
    /\ rlCount' = [rlCount EXCEPT ![p] = rlStore[rlKey[p]].count + 1]
    /\ rlPc' = [rlPc EXCEPT ![p] = "counted"]
    /\ UNCHANGED <<coreVars, mpVars, foVars, rlStore, rlKey, rlOut, rlRes, rlStale, rlPassed>>

\* Redis executes INCR and the await resolves with the new value
RlIncr(p) ==
    /\ rlPc[p] = "incr"
    /\ rlStore' = [rlStore EXCEPT ![rlKey[p]].count = @ + 1]
    /\ rlCount' = [rlCount EXCEPT ![p] = rlStore[rlKey[p]].count + 1]
    /\ rlPc' = [rlPc EXCEPT ![p] = "counted"]
    /\ UNCHANGED <<coreVars, mpVars, foVars, rlKey, rlOut, rlRes, rlStale, rlPassed>>

\* redis.incr rejects: the catch block logs and calls next(). The command
\* may or may not have been executed before the connection failed.
RlIncrFail(p) ==
    /\ rlPc[p] = "incr"
    /\ \E applied \in BOOLEAN :
          rlStore' = IF applied THEN [rlStore EXCEPT ![rlKey[p]].count = @ + 1]
                     ELSE rlStore
    /\ RlNext(p, "failopen")
    /\ UNCHANGED <<coreVars, mpVars, foVars, rlKey, rlCount, rlStale, rlPassed>>

\* the code after the first await: EXPIRE is sent when the count is 1
RlAfterIncr(p) ==
    /\ rlPc[p] = "counted"
    /\ IF rlCount[p] = 1
       THEN /\ rlPc' = [rlPc EXCEPT ![p] = "expire"]
            /\ UNCHANGED <<rlOut, rlRes, rlPassed>>
       ELSE RlDecide(p, rlCount[p])
    /\ UNCHANGED <<coreVars, mpVars, foVars, rlStore, rlKey, rlCount, rlStale>>

\* Redis executes EXPIRE key 3600 (a no-op on a missing key); the rest of
\* the middleware runs
RlExpire(p) ==
    /\ rlPc[p] = "expire"
    /\ rlStore' = IF rlStore[rlKey[p]].count > 0
                  THEN [rlStore EXCEPT ![rlKey[p]].ttl = TRUE]
                  ELSE rlStore
    /\ RlDecide(p, rlCount[p])
    /\ UNCHANGED <<coreVars, mpVars, foVars, rlKey, rlCount, rlStale>>

\* redis.expire rejects: the catch block logs and calls next()
RlExpireFail(p) ==
    /\ rlPc[p] = "expire"
    /\ RlNext(p, "failopen")
    /\ rlPassed' = IF rlStale[p] THEN rlPassed
                   ELSE [rlPassed EXCEPT ![rlKey[p]] = @ + 1]
    /\ UNCHANGED <<coreVars, mpVars, foVars, rlStore, rlKey, rlCount, rlStale>>

\* the TTL of a key runs out: Redis deletes the key and a new window begins
RlKeyExpires(k) ==
    /\ rlStore[k].count > 0
    /\ rlStore[k].ttl
    /\ rlStore' = [rlStore EXCEPT ![k] = AbsentKey]
    /\ rlPassed' = [rlPassed EXCEPT ![k] = 0]
    /\ rlStale' = [p \in RlProcs |->
                     rlStale[p] \/ (rlKey[p] = k /\ rlPc[p] \in {"counted", "expire"})]
    /\ UNCHANGED <<coreVars, mpVars, foVars, rlPc, rlKey, rlCount, rlOut, rlRes>>

-----------------------------------------------------------------------------
(* Farmer orders router *)

JsString(text) == [kind |-> "string", value |-> text]

\* a === b
StrictEquals(a, b) == a.kind = b.kind /\ a.value = b.value

\* the names of the TrackingStatus enum, by number
TrackingStatusName(n) ==
    CASE n = 1 -> "LISTED"
      [] n = 2 -> "MATCHED"
      [] n = 3 -> "PICKUP_SCHEDULED"
      [] n = 4 -> "AT_DROP_POINT"
      [] n = 5 -> "IN_TRANSIT"
      [] n = 6 -> "DELIVERED"
      [] n = 7 -> "PAID"
      [] OTHER -> "TRACKING_STATUS_UNSPECIFIED"

TrackingStatusNumbers == 0..7

decodeEnum_asNumber(n) == JsNumber(n)

\* an enum field as the client hands it to the callback: loadSync is given
\* enums: String, so the field holds the value's name
decodeEnum(n) == JsString(TrackingStatusName(n))

\* statusMap[protoStatus] || 'LISTED': the map's keys are the numbers 0..7
mapProtoStatus(protoStatus) ==
    IF protoStatus.kind = "number" /\ protoStatus.value \in 0..7
    THEN CASE protoStatus.value = 2 -> "MATCHED"
           [] protoStatus.value = 3 -> "PICKUP_SCHEDULED"
           [] protoStatus.value = 4 -> "AT_DROP_POINT"
           [] protoStatus.value = 5 -> "IN_TRANSIT"
           [] protoStatus.value = 6 -> "DELIVERED"
           [] protoStatus.value = 7 -> "PAID"
           [] OTHER -> "LISTED"
    ELSE "LISTED"

\* request paths below /v1/farmers/orders, as their segments
FoPaths == {<<>>, <<"count">>, <<"o1">>, <<"o2">>, <<"o1", "receipt">>, <<"count", "receipt">>}

FoRequests ==
    [path : FoPaths, authOk : BOOLEAN, queryValid : BOOLEAN,
     xCorrelationId : {Undefined, "c1"}]

NoFoRequest ==
    [path |-> <<>>, authOk |-> FALSE, queryValid |-> FALSE, xCorrelationId |-> Undefined]

FoRouteTable_countFirst ==
    << [pattern |-> <<>>, handler |-> "list"],
       [pattern |-> <<"count">>, handler |-> "count"],
       [pattern |-> <<":id">>, handler |-> "details"],
       [pattern |-> <<":id", "receipt">>, handler |-> "receipt"] >>

\* the router's GET routes, in the order router.get registers them
FoRouteTable ==
    << [pattern |-> <<>>, handler |-> "list"],
       [pattern |-> <<":id">>, handler |-> "details"],
       [pattern |-> <<":id", "receipt">>, handler |-> "receipt"],
       [pattern |-> <<"count">>, handler |-> "count"] >>

\* a route pattern matches a path: a ':name' segment matches any segment
MatchRoute(pattern, path) ==
    /\ Len(pattern) = Len(path)
    /\ \A i \in 1..Len(pattern) : pattern[i] = ":id" \/ pattern[i] = path[i]

\* the router runs the first registered route that matches
Dispatch(path) ==
    LET matching == {i \in 1..Len(FoRouteTable) : MatchRoute(FoRouteTable[i].pattern, path)}
    IN IF matching = {} THEN "none"
       ELSE FoRouteTable[CHOOSE i \in matching : \A j \in matching : i <= j].handler

NoFoCall == [rpc |-> "none", order_id |-> Undefined, correlationId |-> Undefined]

FoErrors ==
    [codeKind : {"number"}, code : {5, 7, 14}, details : {"raw"},
     message : {"msg"}, name : {"Error"}, isError : {TRUE}, issues : {Undefined}]

FoIdle ==
    /\ foPc = "idle"
    /\ foReq = NoFoRequest
    /\ foHandler = "none"
    /\ foCall = NoFoCall
    /\ foErr = NoError
    /\ foWire = -1
    /\ foRes = NoResponse

FoArrive ==
    /\ foPc = "idle"
    /\ \E r \in FoRequests : foReq' = r
    /\ foPc' = "auth"
    /\ UNCHANGED <<coreVars, mpVars, rlVars, foHandler, foCall, foErr, foWire, foRes>>

\* router.use(authMiddleware)
FoAuth ==
    /\ foPc = "auth"
    /\ IF foReq.authOk
       THEN foPc' = "dispatch" /\ foRes' = foRes
       ELSE /\ foRes' = errorHandler(AuthError("Invalid token"), "t1", "t1", now).res
            /\ foPc' = "responded"
    /\ UNCHANGED <<coreVars, mpVars, rlVars, foReq, foHandler, foCall, foErr, foWire>>

\* the part of a handler that runs before its remote call is answered
FoHandlerStart(handler, req) ==
    LET correlationId == IF Truthy(req.xCorrelationId) THEN req.xCorrelationId ELSE ""
    IN CASE handler = "list" ->
              IF ~req.queryValid
              THEN [res |-> sendErrorDetails("t1", 400, "VALIDATION_ERROR",
                                             "Invalid query parameters", "format", now),
                    call |-> NoFoCall]
              ELSE [res |-> NoResponse,
                    call |-> [rpc |-> "GetFarmerOrders", order_id |-> Undefined,
                              correlationId |-> correlationId]]
         [] handler \in {"details", "receipt"} ->
              IF req.path[1] = ""
              THEN [res |-> sendErrorDetails("t1", 400, "VALIDATION_ERROR",
                                             "Invalid order ID", "format", now),
                    call |-> NoFoCall]
              ELSE [res |-> NoResponse,
                    call |-> [rpc |-> "GetFarmerOrderDetails", order_id |-> req.path[1],
                              correlationId |-> correlationId]]
         [] handler = "count" ->
              [res |-> NoResponse,
               call |-> [rpc |-> "GetActiveOrderCount", order_id |-> Undefined,
                         correlationId |-> correlationId]]
         [] OTHER ->
              [res |-> [sent |-> TRUE, status |-> 404, body |-> "Cannot GET"],
               call |-> NoFoCall]

\* the router picks the handler and the handler runs up to its remote call
FoDispatch ==
    /\ foPc = "dispatch"
    /\ LET handler == Dispatch(foReq.path)
           start == FoHandlerStart(handler, foReq)
       IN /\ foHandler' = handler
          /\ foRes' = start.res
          /\ foCall' = start.call
          /\ foPc' = IF start.call = NoFoCall THEN "responded" ELSE "await"
    /\ UNCHANGED <<coreVars, mpVars, rlVars, foReq, foErr, foWire>>

\* the callback of the handler's remote call, given err
FoOnError(handler, err) ==
    IF handler \in {"details", "receipt"} /\ err.code = 5
    THEN sendError("t1", 404, "ORDER_NOT_FOUND", "Order not found", now)
    ELSE IF handler = "details" /\ err.code = 7
    THEN sendError("t1", 403, "UNAUTHORIZED", "Not authorized to view this order", now)
    ELSE errorHandler(err, "t1", "t1", now).res

\* the callback of the handler's remote call, given a response whose
\* tracking_status field is trackingStatus
FoOnSuccess(handler, orderId, trackingStatus) ==
    CASE handler = "list" ->
            sendSuccess("t1", [orders |-> <<[id |-> "o1",
                                            trackingStatus |-> mapProtoStatus(trackingStatus)]>>,
                               pagination |-> "pagination"], now)
      [] handler = "details" ->
            sendSuccess("t1", [id |-> orderId,
                               trackingStatus |-> mapProtoStatus(trackingStatus)], now)
      [] handler = "receipt" ->
            IF ~StrictEquals(trackingStatus, JsNumber(7))
            THEN sendError("t1", 400, "ORDER_NOT_COMPLETED",
                           "Receipt only available for completed orders", now)
            ELSE sendSuccess("t1", [receiptNumber |-> <<"RCP-", orderId>>,
                                    orderId |-> orderId, status |-> "PAID"], now)
      [] OTHER ->
            sendSuccess("t1", [count |-> 0], now)

\* the remote call is answered and the handler's callback runs
FoCallback ==
    /\ foPc = "await"
    /\ \/ \E err \in FoErrors :
             /\ foErr' = err
             /\ foWire' = foWire
             /\ foRes' = FoOnError(foHandler, err)
       \/ \E n \in TrackingStatusNumbers :
             /\ foErr' = NoError
             /\ foWire' = n
             /\ foRes' = FoOnSuccess(foHandler, foCall.order_id, decodeEnum(n))
    /\ foPc' = "responded"
    /\ UNCHANGED <<coreVars, mpVars, rlVars, foReq, foHandler, foCall>>

FoFinish ==
    /\ foPc = "responded"
    /\ foPc' = "idle"
    /\ foReq' = NoFoRequest
    /\ foHandler' = "none"
    /\ foCall' = NoFoCall
    /\ foErr' = NoError
    /\ foWire' = -1
    /\ foRes' = NoResponse
    /\ UNCHANGED <<coreVars, mpVars, rlVars>>

AuxIdle == MpIdle /\ RlIdle /\ FoIdle

-----------------------------------------------------------------------------
(* Specification of the status translator and error handler *)

InitErr == now = 0 /\ EhInit /\ store = {} /\ BlIdle /\ TrIdle /\ ClIdle /\ AuxIdle

NextErr == EhHandle \/ EhHandleAgain \/ Tick

SpecErr == InitErr /\ [][NextErr]_vars

-----------------------------------------------------------------------------
(* C1: for every backend status code (0..16) and every other integer, the
   HTTP status produced from it is the one of the status table: OK 200;
   INVALID_ARGUMENT, OUT_OF_RANGE, FAILED_PRECONDITION 400; UNAUTHENTICATED
   401; PERMISSION_DENIED 403; NOT_FOUND 404; ALREADY_EXISTS, ABORTED 409;
   RESOURCE_EXHAUSTED 429; CANCELLED 499; UNIMPLEMENTED 501; UNAVAILABLE 503;
   DEADLINE_EXCEEDED 504; INTERNAL, DATA_LOSS, UNKNOWN and unmapped 500. *)

TableHttp(c) ==
    IF c = 0 THEN 200
    ELSE IF c \in {3, 11, 9} THEN 400
    ELSE IF c = 16 THEN 401
    ELSE IF c = 7 THEN 403
    ELSE IF c = 5 THEN 404
    ELSE IF c \in {6, 10} THEN 409
    ELSE IF c = 8 THEN 429
    ELSE IF c = 1 THEN 499
    ELSE IF c = 12 THEN 501
    ELSE IF c = 14 THEN 503
    ELSE IF c = 4 THEN 504
    ELSE 500

C1_StatusTable ==
    (ehPc = "done" /\ ehErr.codeKind = "number")
        => ehRes.status = TableHttp(ehErr.code)

C1_Witness ==
    /\ ehPc = "done"
    /\ ehErr.codeKind = "number"
    /\ ehErr.code = GrpcStatus.DEADLINE_EXCEEDED
    /\ ehRes.status = 504

-----------------------------------------------------------------------------
(* Specification of the token blacklist middleware *)

InitBl == now = 0 /\ EhIdle /\ store = {} /\ BlIdle /\ TrIdle /\ ClIdle /\ AuxIdle

NextBl ==
    \/ BlArrive
    \/ BlPassNoBearer
    \/ BlPassEmptyToken
    \/ BlCtorThrows
    \/ BlIssueExists
    \/ BlExistsResolve
    \/ BlExistsReject
    \/ BlDownstream
    \/ BlFinish
    \/ closeBlacklistRedis
    \/ ExternalRevoke
    \/ ExpireEntry

SpecBl == InitBl /\ [][NextBl]_vars

\* the request carries a bearer credential: 'Bearer ' followed by a token
HasBearerToken(h) ==
    /\ h.present
    /\ Len(h.value) > Len(BearerPrefix)
    /\ SubSeq(h.value, 1, Len(BearerPrefix)) = BearerPrefix

Rejected401 ==
    /\ blRes.sent
    /\ blRes.status = 401
    /\ blRes.body.error.code = "TOKEN_INVALIDATED"
    /\ blNext = 0
    /\ ~blHandlerRan

(* C2, as stated: every request whose bearer token's key
   token:blacklist:<sha256(T)> is in the revocation store is answered 401
   TOKEN_INVALIDATED, next() is never called and no handler runs. *)
C2_Original ==
    (blPc = "done" /\ HasBearerToken(blReq) /\ blKeyAtLookup) => Rejected401

(* C2, amended: every request whose bearer token's key is in the revocation
   store when the lookup is made, and whose lookup succeeds, is answered 401
   TOKEN_INVALIDATED, next() is never called and no handler runs. *)
C2_RevokedRejected ==
    (blPc = "done" /\ HasBearerToken(blReq) /\ blKeyAtLookup /\ blFail = "none")
        => Rejected401

C2_Witness ==
    /\ blPc = "done"
    /\ HasBearerToken(blReq)
    /\ blKeyAtLookup
    /\ blFail = "none"
    /\ blRes.sent
    /\ blLookups = 1

(* C3: when the revocation-store lookup fails (creating the client throws,
   or redis.exists rejects) the middleware calls next() exactly once, with
   no error argument, and writes no response, whatever the token. *)
C3_FailOpen ==
    (blPc = "done" /\ blFail # "none")
        => (blNext = 1 /\ ~blNextErr /\ blRes = NoResponse)

C3_Witness ==
    /\ blPc = "done"
    /\ blFail = "exists"
    /\ blKeyAtLookup
    /\ blNext = 1
    /\ blHandlerRan

(* C4: when the Authorization header is absent, does not start with
   'Bearer ', or has an empty token after the prefix, the middleware calls
   next() exactly once (without an error), looks nothing up in the store,
   writes no response and leaves the request as it was. *)
C4_PassThrough ==
    (blPc = "done" /\ ~HasBearerToken(blReq))
        => /\ blNext = 1
           /\ ~blNextErr
           /\ blLookups = 0
           /\ blFail = "none"
           /\ blRes = NoResponse
           /\ blReq = blReqEntry

C4_Witness ==
    /\ blPc = "done"
    /\ blReq.present
    /\ blReq.value = BearerPrefix
    /\ blNext = 1
    /\ blLookups = 0

-----------------------------------------------------------------------------
(* Specification of the request-id / trace propagation path *)

InitTrace == now = 0 /\ EhIdle /\ store = {} /\ BlIdle /\ TrIdle /\ ClIdle /\ AuxIdle

NextTrace ==
    \/ Tick
    \/ TrArrive
    \/ requestIdMiddleware
    \/ traceIdMiddleware
    \/ CatalogProducts_Handle
    \/ CatalogProducts_Callback
    \/ CreateOrder_Handle
    \/ CreateOrder_Listing
    \/ CreateOrder_Order
    \/ FarmerOrders_Handle
    \/ FarmerOrders_Callback
    \/ BuyersListing_Handle
    \/ BuyersListing_Callback
    \/ AuthLogin_Handle
    \/ AuthLogin_Callback
    \/ LoginRequestOtp_Handle
    \/ LoginRequestOtp_Callback
    \/ LoginVerifyOtp_Handle
    \/ LoginVerifyOtp_Callback
    \/ BuyerLogin_Handle
    \/ BuyerLogin_Callback
    \/ ForgotPassword_Handle
    \/ ForgotPassword_Callback
    \/ AuthProfile_Handle
    \/ AuthProfile_Callback
    \/ AdminAgents_Handle
    \/ AdminAgents_Callback
    \/ HaulerStep1_Handle
    \/ HaulerStep1_Callback
    \/ AssignDropPoint_Handle
    \/ AssignDropPoint_Callback
    \/ TrFinish
    \/ CallOutsideContext

SpecTrace == InitTrace /\ [][NextTrace]_vars

\* meta.request_id of a response body, when the body has one
RequestIdOf(res) ==
    IF "meta" \in DOMAIN res.body /\ "request_id" \in DOMAIN res.body.meta
    THEN res.body.meta.request_id
    ELSE Undefined

RequestCalls == {i \in 1..Len(trCalls) : trCalls[i].inRequest}

(* C5: for every inbound request that supplies a trace id header, that value
   is the response's meta.request_id and the trace-id metadata value of
   every outbound call made for the request, on every route. *)
C5_SuppliedTraceIdEchoed ==
    (trPc \notin {"idle", "requestId"} /\ Truthy(trSupplied))
        => /\ (trRes.sent => RequestIdOf(trRes) = trSupplied)
           /\ \A i \in RequestCalls :
                 trCalls[i].metadata.has /\ trCalls[i].metadata.value = trSupplied

(* C6: for every inbound request that supplies no trace id, a non-empty id
   is generated before any downstream call, and that one id is the response
   header, the response's meta.request_id, the error handler's log entry and
   the trace-id of every outbound call of the request. *)
C6_GeneratedTraceIdStable ==
    (trPc \notin {"idle", "requestId"} /\ ~Truthy(trSupplied))
        => /\ trResHdr \in UUIDs
           /\ trReq.xTraceId = trResHdr
           /\ (trRes.sent => RequestIdOf(trRes) = trResHdr)
           /\ (trLog # Undefined => trLog = trResHdr)
           /\ \A i \in RequestCalls :
                 trCalls[i].metadata.has /\ trCalls[i].metadata.value = trResHdr

(* C7: every outbound remote call issued by a route handler carries a
   metadata entry trace-id with a non-empty value, whether the handler
   passes createMetadata or relies on the client interceptor. *)
C7_EveryCallCarriesTraceId ==
    \A i \in RequestCalls :
        trCalls[i].metadata.has /\ Truthy(trCalls[i].metadata.value)

(* C8: when the request-scoped storage is empty at the time of an outbound
   call (no store, or a store without traceId), the interceptor forwards the
   call with the caller's metadata unchanged; the call is transmitted. *)
C8_EmptyStoreForwardsUnchanged ==
    \A i \in 1..Len(trCalls) :
        (trCalls[i].intercepted /\ trCalls[i].storeEmpty)
            => trCalls[i].metadata = trCalls[i].callerMetadata

C8_Witness ==
    /\ Len(trCalls) = 1
    /\ trCalls[1].intercepted
    /\ trCalls[1].storeEmpty
    /\ trCalls[1].callerMetadata.has
    /\ trCalls[1].metadata = createMetadata("bg")

-----------------------------------------------------------------------------
(* Specification of the client handles *)

InitClients == now = 0 /\ EhIdle /\ store = {} /\ BlIdle /\ TrIdle /\ ClInit /\ AuxIdle

NextClients ==
    \/ LoadAuthClient
    \/ LoadCatalogClient
    \/ LoadOrderClient
    \/ LoadMatchClient
    \/ LoadLogisticsClient
    \/ ClRequest

SpecClients == InitClients /\ [][NextClients]_vars

HandlesOf(service) == {i \in 1..Len(handles) : handles[i].service = service}

(* C9: after any sequence of inbound requests exactly one client handle has
   been constructed for each backend service (auth, catalog, order,
   logistics, match), and no handle was constructed while handling a
   request. *)
C9_OneHandlePerService ==
    clServed > 0
        => /\ \A s \in Services : Cardinality(HandlesOf(s)) = 1
           /\ \A i \in 1..Len(handles) : handles[i].during = "load"

C9_Witness ==
    /\ clServed = MaxRequests
    /\ clUseCount["auth"] >= 2
    /\ Len(handles) = 5

(* C10, as stated: obtaining a client fails with an error only when the
   service is absent from the loaded schema; otherwise a cached handle is
   returned that is created on first use only (lazily), and two requests for
   the same service get the same handle. *)
C10_Original ==
    /\ (clErr # Undefined => clErr \notin schema)
    /\ \A i \in 1..Len(handles) : clUseCount[handles[i].service] > 0
    /\ \A s \in Services : Cardinality(clUsed[s]) <= 1

(* C10, amended: createClient fails with an Error when the named service is
   absent from the loaded schema, which aborts module load so that no request
   is served; otherwise each createClient call constructs a new handle (the
   factory keeps no cache). The handles are created eagerly at module load,
   before any request, and every request for a service gets that service's
   one handle. *)
C10_EagerSingleton ==
    /\ (loadPc = "crashed" <=> clErr # Undefined)
    /\ (clErr # Undefined =>
            clErr \notin schema /\ HandlesOf(clErr) = {} /\ clServed = 0)
    /\ \A i \in 1..Len(handles) :
            handles[i].service \in schema /\ handles[i].id = i
    /\ Cardinality({i \in 1..Len(handles) : handles[i].interceptors})
            + (IF clErr \in {"auth", "catalog", "order", "match"} THEN 1 ELSE 0)
         = clCreateCalls
    /\ (clServed > 0 => loadPc = "ready")
    /\ \A s \in Services :
            /\ (clUseCount[s] > 0 => clUsed[s] = {exports[s]})
            /\ (clUseCount[s] > 0 => exports[s] \in HandlesOf(s))

C10_Witness ==
    /\ loadPc = "ready"
    /\ clUseCount["order"] = 2
    /\ Cardinality(clUsed["order"]) = 1

-----------------------------------------------------------------------------
(* Error translation as the client sees it *)

\* application codes that some route-local callback recognises
RecognizedCodes ==
    {"PHONE_NOT_REGISTERED", "ACCOUNT_LOCKED", "INVALID_OTP", "INVALID_CREDENTIALS"}

\* the HTTP status that goes with a structured code
CodeStatus(code) ==
    CASE code = "PHONE_NOT_REGISTERED" -> 404
      [] code = "ACCOUNT_LOCKED" -> 403
      [] code = "INVALID_OTP" -> 401
      [] code = "INVALID_CREDENTIALS" -> 401
      [] OTHER -> 0

NoErrorObject == [code |-> Undefined, message |-> Undefined]

\* the error object of a failure response that has the envelope's data field
ErrorObjectOf(res) ==
    IF res.status >= 400 /\ "data" \in DOMAIN res.body
    THEN res.body.error
    ELSE NoErrorObject

\* the request has been answered after its remote call failed with trErr
BackendFailed == trPc = "responded" /\ trErr.codeKind = "number"

StructuredCode ==
    IF JSONParse(trErr.details).ok THEN JSONParse(trErr.details).value.error
    ELSE Undefined

ExtrasForwarded(errorDetails, errorObject) ==
    /\ errorDetails.error = "ACCOUNT_LOCKED"
          => /\ "details" \in DOMAIN errorObject
             /\ \/ /\ "locked_until" \in DOMAIN errorObject.details
                   /\ errorObject.details.locked_until = errorDetails.lockedUntil
                \/ /\ "locked_until_minutes" \in DOMAIN errorObject.details
                   /\ errorObject.details.locked_until_minutes
                         = errorDetails.lockedUntilMinutes
    /\ errorDetails.error \in {"INVALID_OTP", "INVALID_CREDENTIALS"}
          => /\ "details" \in DOMAIN errorObject
             /\ "remaining_attempts" \in DOMAIN errorObject.details
             /\ errorObject.details.remaining_attempts = errorDetails.remainingAttempts

(* C11: whenever a backend error's details parse as JSON holding a
   recognizable application code, the response carries that code as
   error.code with the code's own HTTP status (the same on every route) in
   place of the table's result, and the extra fields are forwarded. *)
C11_StructuredCodeOverrides ==
    (BackendFailed /\ StructuredCode \in RecognizedCodes)
        => /\ trRes.status = CodeStatus(StructuredCode)
           /\ ErrorObjectOf(trRes).code = StructuredCode
           /\ ExtrasForwarded(JSONParse(trErr.details).value, ErrorObjectOf(trRes))

\* err.details || err.message
RawMessage(err) == IF Truthy(err.details) THEN err.details ELSE err.message

(* C12: when a backend error's details do not parse as JSON, or carry no
   recognized code, the client receives the generic envelope: the HTTP
   status of the status table, error.code SERVICE_ERROR and the raw message
   text as error.message. *)
C12_GenericEnvelope ==
    (BackendFailed /\ StructuredCode \notin RecognizedCodes)
        => /\ trRes.status = TableHttp(trErr.code)
           /\ ErrorObjectOf(trRes).code = "SERVICE_ERROR"
           /\ ErrorObjectOf(trRes).message = RawMessage(trErr)

\* the standard failure envelope {data: null, meta: {timestamp, request_id},
\* error: {code, message, details?}}
StandardFailure(res) ==
    /\ DOMAIN res.body = {"data", "meta", "error"}
    /\ res.body.data = "null"
    /\ DOMAIN res.body.meta = {"timestamp", "request_id"}
    /\ {"code", "message"} \subseteq DOMAIN res.body.error
    /\ DOMAIN res.body.error \subseteq {"code", "message", "details"}

ErrorResponded == trPc = "responded" /\ trRes.status >= 400

(* C13: every error response, on every route and middleware, has the
   standard failure envelope, and details is present only for validation
   errors and for backend errors carrying structured application codes. *)
C13_StandardFailureEnvelope ==
    ErrorResponded
        => /\ StandardFailure(trRes)
           /\ "details" \in DOMAIN trRes.body.error
                 => \/ trSteps # <<>> /\ trSteps[Len(trSteps)] = "validate_failed"
                    \/ trErr.codeKind = "number" /\ StructuredCode \in RecognizedCodes

\* the message texts a response body holds
BodyMessages(res) ==
    (IF "message" \in DOMAIN res.body THEN {res.body.message} ELSE {})
        \cup (IF res.status >= 400 /\ "data" \in DOMAIN res.body
              THEN {res.body.error.message} ELSE {})

(* C14: an uncaught error that is neither a backend error nor a validation
   error yields HTTP 500 with a generic message; its message text is never
   contained in the response body. *)
C14_NoInternalTextInBody ==
    (trPc = "responded" /\ trErr.codeKind = "undefined" /\ trErr.name # "ZodError")
        => /\ trRes.status = 500
           /\ trErr.message \notin BodyMessages(trRes)

\* authMiddleware has turned the request down
AuthRejected ==
    /\ trPc = "responded"
    /\ trSteps # <<>>
    /\ trSteps[Len(trSteps)] = "auth_failed"

(* C15: a request to a route protected by authMiddleware with a missing
   Authorization header, a header without a token part, or a token that
   fails verification receives HTTP 401 through the central error handler,
   and no backend call is made for it. *)
C15_AuthFailureIs401 ==
    AuthRejected => (trRes.status = 401 /\ trCalls = <<>>)

\* routes that validate against a zod schema; the hauler and buyer login
\* handlers test their fields by hand
SchemaRoutes == Routes \ {"haulerStep1", "buyerLogin"}

ValidationFailed ==
    /\ trPc = "responded"
    /\ trSteps # <<>>
    /\ trSteps[Len(trSteps)] = "validate_failed"

(* C16: on every route that validates its payload, path parameters or query
   against a schema, a request that fails validation receives HTTP 400 with
   error.code = VALIDATION_ERROR, and the backend client is never invoked
   for that request. *)
C16_ValidationFailureIs400 ==
    (ValidationFailed /\ trReq.route \in SchemaRoutes)
        => /\ trRes.status = 400
           /\ ErrorObjectOf(trRes).code = "VALIDATION_ERROR"
           /\ trCalls = <<>>

\* the remote call of a valid request succeeded and the handler answered
\* with a success status
Succeeded ==
    /\ trPc = "responded"
    /\ trErr = NoError
    /\ trSteps # <<>>
    /\ trSteps[Len(trSteps)] = "translate"
    /\ trRes.status < 400

(* C17: when the payload is valid and the backend call succeeds, the client
   receives HTTP 200 with the success envelope {data, meta: {timestamp,
   request_id}, error: null}, request_id being the request's trace id
   (login: data.token set), on every route that returns a success. *)
C17_SuccessEnvelope ==
    Succeeded
        => /\ trRes.status = 200
           /\ DOMAIN trRes.body = {"data", "meta", "error"}
           /\ trRes.body.error = "null"
           /\ DOMAIN trRes.body.meta = {"timestamp", "request_id"}
           /\ trRes.body.meta.request_id = trReq.xTraceId
           /\ (trReq.route = "authLogin" => trRes.body.data.token = "fake-token")

(* C18: for every inbound request the gateway issues at most one outbound
   remote call: a failed call is never re-issued and no handler chains a
   second remote call in the same request. *)
C18_AtMostOneCall == Cardinality(RequestCalls) <= 1

(* C19: within one request the steps run in the order validate, auth check,
   revocation check, remote call, translate response: no remote call starts
   before validation, the auth check and the revocation check of that
   request have all completed successfully, in that order. *)
C19_StepOrder ==
    \A i \in 1..Len(trSteps) :
        trSteps[i] = "call"
            => \E v, a, r \in 1..Len(trSteps) :
                  /\ v < a /\ a < r /\ r < i
                  /\ trSteps[v] = "validate"
                  /\ trSteps[a] \in {"auth", "user"}
                  /\ trSteps[r] = "revocation"

-----------------------------------------------------------------------------
(* The error translator applied twice to one error *)

TranslatedTwice == ehPc = "again"

(* C20 as stated: translating the same backend error twice yields identical
   error envelopes: HTTP status and whole response body depend only on the
   error. *)
C20_Original == TranslatedTwice => ehRes2 = ehRes

(* C20: translating the same error twice yields the same HTTP status, the
   same data and the same error object (code, message, details); only
   meta.timestamp and meta.request_id follow the time and the request. *)
C20_SameStatusAndError ==
    TranslatedTwice
        => /\ ehRes2.status = ehRes.status
           /\ ehRes2.body.data = ehRes.body.data
           /\ ehRes2.body.error = ehRes.body.error

C20_Witness ==
    /\ TranslatedTwice
    /\ ehErr.codeKind = "number"
    /\ ehErr.code = GrpcStatus.UNAVAILABLE
    /\ ehRes.status = 503
    /\ ehRes2.body.meta.timestamp # ehRes.body.meta.timestamp

-----------------------------------------------------------------------------
(* Specification of the route-local mappers *)

InitMap ==
    now = 0 /\ EhIdle /\ store = {} /\ BlIdle /\ TrIdle /\ ClIdle /\ MpInit /\ RlIdle /\ FoIdle

NextMap ==
    \/ ApplyMapper("handleGrpcError")
    \/ ApplyMapper("parseGrpcError")
    \/ ApplyMapper("parseGrpcErrorTeam")
    \/ ApplyMapper("mapGrpcError")
    \/ ApplyMapper("mapGrpcErrorPhotos")
    \/ ApplyMapper("listingInline")

SpecMap == InitMap /\ [][NextMap]_vars

(* C21: every route-local backend-error mapper returns, for each backend
   status code, the same HTTP status as mapGrpcStatusToHttp. *)
C21_MappersAgreeWithTable ==
    mpErr.code \in 0..16
        => \A m \in Mappers :
              mpOut[m] # NotApplied => mpOut[m] = mapGrpcStatusToHttp(mpErr.code)

-----------------------------------------------------------------------------
(* Forgot password *)

ForgotPasswordAnswered ==
    /\ trPc = "responded"
    /\ trReq.route = "forgotPassword"
    /\ trReq.valid

(* C22: POST /v1/auth/buyer/forgot-password with a non-empty email always
   responds HTTP 200 with a success envelope, whether the backend call
   succeeded, failed with an RPC error or threw: status and error field do
   not depend on the backend outcome. *)
C22_ForgotPasswordAlways200 ==
    ForgotPasswordAnswered
        => /\ trRes.status = 200
           /\ DOMAIN trRes.body = {"data", "meta", "error"}
           /\ trRes.body.error = "null"

C22_Witness ==
    /\ ForgotPasswordAnswered
    /\ trErr.codeKind = "number"
    /\ trErr.code = 14
    /\ trRes.status = 200

-----------------------------------------------------------------------------
(* Specification of the rate-limit middleware *)

InitRl ==
    now = 0 /\ EhIdle /\ store = {} /\ BlIdle /\ TrIdle /\ ClIdle /\ MpIdle /\ RlIdle /\ FoIdle

NextRl ==
    \/ \E p \in RlProcs : RlArrive(p)
    \/ \E p \in RlProcs : RlIncr(p)
    \/ \E p \in RlProcs : RlIncrFail(p)
    \/ \E p \in RlProcs : RlAfterIncr(p)
    \/ \E p \in RlProcs : RlExpire(p)
    \/ \E p \in RlProcs : RlExpireFail(p)
    \/ \E k \in RlKeys : RlKeyExpires(k)

SpecRl == InitRl /\ [][NextRl]_vars

(* C23: for each rate-limit key, in each window, at most
   MAX_WINDOW_REQUEST_COUNT of the requests that the store counted are let
   through, and every request whose count exceeds the budget is rejected,
   under every interleaving of concurrent requests at the awaits. *)
C23_AtMostBudgetPassed ==
    /\ \A k \in RlKeys : rlPassed[k] <= MAX_WINDOW_REQUEST_COUNT
    /\ \A p \in RlProcs :
          rlPc[p] = "done" /\ rlOut[p] # "failopen"
              => (rlOut[p] = "rejected" <=> rlCount[p] > MAX_WINDOW_REQUEST_COUNT)

C23_Witness ==
    \E p, q \in RlProcs :
        /\ p # q
        /\ rlKey[p] = rlKey[q]
        /\ rlOut[p] = "rejected"
        /\ rlPc[q] = "counted"
        /\ rlCount[q] < rlCount[p]
        /\ rlPassed[rlKey[p]] < MAX_WINDOW_REQUEST_COUNT

\* no request is between its INCR and the end of the middleware
RlQuiescent == \A p \in RlProcs : rlPc[p] \in {"idle", "done"}

(* C24: after any sequence of rateLimitMiddleware executions, including
   ones in which the store fails between the increment and the expire call,
   every rate-limit key in the store has an expiry. *)
C24_EveryKeyHasExpiry ==
    RlQuiescent => \A k \in RlKeys : rlStore[k].count > 0 => rlStore[k].ttl

(* C25: a request rejected by rateLimitMiddleware is answered by the error
   handler with HTTP status 429. *)
C25_RejectedIs429 ==
    \A p \in RlProcs : rlOut[p] = "rejected" => rlRes[p].status = 429

-----------------------------------------------------------------------------
(* Revoked tokens and the two token extractions *)

\* the blacklist middleware decides on blReq without a store failure, the
\* token that authMiddleware accepts from the same header being revoked
RevokedTokenDecided ==
    /\ blPc # "done"
    /\ blPc' = "done"
    /\ blFail' = "none"
    /\ authMiddlewareHeader(blReq).accepted
    /\ BlacklistKey(hashToken(authMiddlewareHeader(blReq).token)) \in store

(* C26: for every Authorization header, when authMiddleware accepts the
   token it extracts from the header and the hash of that token is in the
   revocation store, tokenBlacklistMiddleware rejects the same request
   (it answers 401 and does not call next), whatever the scheme word is. *)
C26_RevokedTokenRejected ==
    [][RevokedTokenDecided => (blRes' = TokenInvalidated /\ blNext' = blNext)]_vars

-----------------------------------------------------------------------------
(* One response per request; created resources *)

\* no code of the request is left to run
RequestOver == trPc \in {"responded", "crashed"}

(* C27: every inbound request receives exactly one HTTP response, for every
   outcome of the backend call, a success whose nested message field
   (response.user, response.profile) is null included: when the request's
   code has run to its end, one response has been written. *)
C27_ExactlyOneResponse ==
    /\ trSent <= 1
    /\ RequestOver => trSent = 1

\* routes whose handler calls sendSuccess(res, data, 201)
CreatedRoutes == {"authProfile", "createOrder"}

(* C30: a handler that calls sendSuccess(res, data, 201) responds with HTTP
   status 201, and the envelope's meta still holds timestamp and
   request_id. *)
C30_CreatedIs201 ==
    (Succeeded /\ trReq.route \in CreatedRoutes)
        => /\ trRes.status = 201
           /\ {"timestamp", "request_id"} \subseteq DOMAIN trRes.body.meta

-----------------------------------------------------------------------------
(* Specification of the farmer orders router *)

InitOrders ==
    now = 0 /\ EhIdle /\ store = {} /\ BlIdle /\ TrIdle /\ ClIdle /\ MpIdle /\ RlIdle /\ FoIdle

NextOrders ==
    \/ FoArrive
    \/ FoAuth
    \/ FoDispatch
    \/ FoCallback
    \/ FoFinish

SpecOrders == InitOrders /\ [][NextOrders]_vars

\* the request has been handed to a route handler
FoDispatched == foPc \in {"await", "responded"} /\ foHandler # "none"

(* C28: GET /v1/farmers/orders/count is served by the active-order-count
   handler: it calls GetActiveOrderCount and answers {count}; the request
   is not dispatched to the order-details handler registered for '/:id'. *)
C28_CountServedByCountHandler ==
    (FoDispatched /\ foReq.path = <<"count">>)
        => /\ foHandler = "count"
           /\ foCall.rpc = "GetActiveOrderCount"
           /\ (foPc = "responded" /\ foErr = NoError
                   => DOMAIN foRes.body.data = {"count"})

\* the backend answered the handler's call with a response
FoAnswered(handler) ==
    /\ foPc = "responded"
    /\ foHandler = handler
    /\ foCall # NoFoCall
    /\ foErr = NoError

(* C29: GET /v1/farmers/orders/:id/receipt answers the receipt exactly when
   the backend's tracking status is PAID and 400 ORDER_NOT_COMPLETED for
   every other status, the client decoding enums as strings; and
   mapProtoStatus reports a PAID order as 'PAID'. *)
C29_ReceiptIffPaid ==
    /\ FoAnswered("receipt")
          => IF foWire = 7
             THEN foRes.status = 200 /\ foRes.body.data.status = "PAID"
             ELSE foRes.status = 400 /\ foRes.body.error.code = "ORDER_NOT_COMPLETED"
    /\ (FoAnswered("details") /\ foWire = 7)
          => foRes.body.data.trackingStatus = "PAID"

====
